---- MODULE Spec2Model ----
(***************************************************************************)
(* Field-extraction and scoring engine of the AXA XL PDF extractor:        *)
(* the FieldValue / ExtractionResult model, the result merger, the         *)
(* extraction pipeline and the config auto-selector.                       *)
(*                                                                         *)
(* Conventions.                                                            *)
(*  - A Python float is modelled exactly: a confidence is an integer       *)
(*    number of thousandths (0.54 is 540), and a quotient (a mean, a       *)
(*    score) is a reduced fraction [num, den] of thousandths.              *)
(*  - Optional[str] is a sequence of length 0 (None) or 1 (<<"text">>).    *)
(*  - A dict is a function whose DOMAIN is the set of keys.                *)
(***************************************************************************)
EXTENDS Integers, Sequences, FiniteSets, TLC

VARIABLES
    pc,          \* position of the running operation
    extractors,  \* ExtractionPipeline.extractors: how each strategy behaves on the document
    pos,         \* index of the extractor the loop of run() is at
    results,     \* run(): the local list `results`
    record,      \* run(): the returned record, <<>> while running
    asked,       \* run(): the positions of the extractors whose extract() was called
    ins,         \* merger: the ExtractionResults to be merged, in order
    done,        \* merger: how many of ins are folded into acc
    acc,         \* merger: `merged` so far
    pair,        \* merger: A.merge_with(B), B.merge_with(A), A.merge_with(A)
    aggIn,       \* aggregate_confidence: the ExtractionResult passed
    aggOut,      \* aggregate_confidence: the value returned, <<>> before the call
    filename,    \* selector: the document's file name
    configs_index, \* selector: the config file names, as list_config_files sorts them
    candidates,  \* selector: the local list `candidates`
    hint,        \* selector: (boost, triggers) of the last filename_hint_boost call
    selection,   \* selector: the returned triple, <<>> before the return
    step,        \* strategies: position in TextPDFExtractor.extract / the pipeline run
    config,      \* strategies: config["patterns"], <<>> when no config is passed
    found,       \* strategies: what re.search returns for each pattern on the text layer
    kvFound,     \* strategies: per field, the values the label scanner reads, in line order
    ocrFound,    \* strategies: what re.search returns for each pattern on the OCR'd text
    full_text,   \* strategies: the text layer, <<>> when only the search outcomes are given
    marker,      \* strategies: whether the text layer holds the AXA XL marker
    patterns,    \* TextPDFExtractor.extract: the local dict `patterns`
    pass1,       \* TextPDFExtractor.extract: `fields` as the pattern pass left it
    textResult,  \* the ExtractionResult of TextPDFExtractor.extract, <<>> before
    ocrResult,   \* the ExtractionResult of OCRPDFExtractor.extract, <<>> before
    bothRecord,  \* the record run() returns for the two results, <<>> before
    scoreIn,     \* _score: the (field, value) passed
    scoreOut,    \* _score: the value returned, <<>> before the call
    documents,   \* storage: the rows of table documents, in rowid order
    fieldRows,   \* storage: the rows of table fields, in rowid order
    saved,       \* storage: the save_extraction calls so far, with the id each returned
    got,         \* storage: the last get_document call and its result, <<>> after a save
    reviewFields, \* review: result["fields"], as (name, field) pairs in dict order
    editable,    \* review: the text of each field's input box, by position
    shown,       \* review: result["fields"] as extracted, before Save is pressed
    save_to_db,  \* review: the "save to database" switch
    notice       \* review: the message after Save, <<>> before

pipelineVars == <<pc, extractors, pos, results, record, asked>>
mergerVars == <<ins, done, acc, pair>>
aggVars == <<aggIn, aggOut>>
selectVars == <<filename, configs_index, candidates, hint, selection>>
strategyVars ==
    <<step, config, full_text, found, kvFound, ocrFound, marker, patterns, pass1,
      textResult, ocrResult, bothRecord>>
scoreVars == <<scoreIn, scoreOut>>
storageVars == <<documents, fieldRows, saved, got>>
reviewVars == <<reviewFields, editable, shown, save_to_db, notice>>
laterVars == <<strategyVars, scoreVars, storageVars, reviewVars>>
vars == <<pipelineVars, mergerVars, aggVars, selectVars, laterVars>>
notPipeline == <<mergerVars, aggVars, selectVars, laterVars>>
notMerger == <<pipelineVars, aggVars, selectVars, laterVars>>
notAgg == <<pipelineVars, mergerVars, selectVars, laterVars>>
notSelect == <<pipelineVars, mergerVars, aggVars, laterVars>>
earlierVars == <<pipelineVars, mergerVars, aggVars, selectVars>>
notStrategy == <<earlierVars, scoreVars, storageVars, reviewVars>>
notScore == <<earlierVars, strategyVars, storageVars, reviewVars>>
notStorage == <<earlierVars, strategyVars, scoreVars, reviewVars>>
notReview == <<earlierVars, strategyVars, scoreVars>>

(***************************************************************************)
(* Bounds                                                                  *)
(***************************************************************************)
MaxStrategies == 3      \* registered extractors (the default pipeline has two)
MaxResults == 3         \* results folded by the merger
MaxConfigs == 4         \* config files in config/forms

(***************************************************************************)
(* Generic helpers                                                         *)
(***************************************************************************)
None == <<>>
Some(s) == <<s>>
EmptyDict == <<>>

Max(a, b) == IF a >= b THEN a ELSE b
Min(a, b) == IF a <= b THEN a ELSE b

RECURSIVE GCD(_, _)
GCD(a, b) == IF b = 0 THEN a ELSE GCD(b, a % b)

\* the float n/d, d > 0, n >= 0
Frac(n, d) == LET g == GCD(n, d) IN [num |-> n \div g, den |-> d \div g]
Zero == Frac(0, 1)
FAdd(a, b) == Frac(a.num * b.den + b.num * a.den, a.den * b.den)
FLess(a, b) == a.num * b.den < b.num * a.den
FLeq(a, b) == a.num * b.den <= b.num * a.den

\* dict(d1); d.update(d2)
DictUpdate(d1, d2) ==
    [k \in (DOMAIN d1) \cup (DOMAIN d2) |-> IF k \in DOMAIN d2 THEN d2[k] ELSE d1[k]]

(***************************************************************************)
(* fields.py: FieldValue, ExtractionResult                                 *)
(***************************************************************************)
FieldValue(n, v, c, s) ==
    [name |-> n, value |-> v, confidence |-> c, source |-> s, meta |-> EmptyDict]

ExtractionResult(f, digest, meta) ==
    [fields |-> f, text_digest |-> digest, doc_meta |-> meta]

\* merge_with with `>=` for `>`: the later result wins a tie
merge_with_later_wins_ties(self, other) ==
    ExtractionResult(
        [k \in (DOMAIN self.fields) \cup (DOMAIN other.fields) |->
            IF k \notin DOMAIN self.fields THEN other.fields[k]
            ELSE IF k \in DOMAIN other.fields
                    /\ other.fields[k].confidence >= self.fields[k].confidence
                 THEN other.fields[k]
                 ELSE self.fields[k]],
        IF self.text_digest # None THEN self.text_digest ELSE other.text_digest,
        DictUpdate(self.doc_meta, other.doc_meta))

\* merge_with without the confidence comparison: self's entry always stays
merge_with_keeps_self(self, other) ==
    ExtractionResult(
        [k \in (DOMAIN self.fields) \cup (DOMAIN other.fields) |->
            IF k \in DOMAIN self.fields THEN self.fields[k] ELSE other.fields[k]],
        IF self.text_digest # None THEN self.text_digest ELSE other.text_digest,
        DictUpdate(self.doc_meta, other.doc_meta))

\* ExtractionResult.merge_with: keys of self keep their entry unless other
\* holds the key with a strictly greater confidence; other's new keys are added.
merge_with(self, other) ==
    ExtractionResult(
        [k \in (DOMAIN self.fields) \cup (DOMAIN other.fields) |->
            IF k \notin DOMAIN self.fields THEN other.fields[k]
            ELSE IF k \in DOMAIN other.fields
                    /\ other.fields[k].confidence > self.fields[k].confidence
                 THEN other.fields[k]
                 ELSE self.fields[k]],
        IF self.text_digest # None THEN self.text_digest ELSE other.text_digest,
        DictUpdate(self.doc_meta, other.doc_meta))

RECURSIVE SumOver(_, _)
SumOver(f, S) ==
    IF S = {} THEN 0
    ELSE LET k == CHOOSE x \in S : TRUE IN f[k] + SumOver(f, S \ {k})

\* aggregate_confidence dividing by len(result.fields): unfilled fields count
aggregate_confidence_over_all(result) ==
    IF DOMAIN result.fields = {} THEN Zero
    ELSE LET counted == {k \in DOMAIN result.fields : result.fields[k].value # None}
             clamped == [k \in counted |-> Max(0, Min(1000, result.fields[k].confidence))]
         IN Frac(SumOver(clamped, counted), Cardinality(DOMAIN result.fields))

\* aggregate_confidence: mean of the clamped confidences of the fields whose
\* value is not None; 0.0 without fields or without such a field.
aggregate_confidence(result) ==
    IF DOMAIN result.fields = {} THEN Zero
    ELSE LET counted == {k \in DOMAIN result.fields : result.fields[k].value # None}
             clamped == [k \in counted |-> Max(0, Min(1000, result.fields[k].confidence))]
             total == SumOver(clamped, counted)
             n == Cardinality(counted)
         IN IF n # 0 THEN Frac(total, n) ELSE Zero

(***************************************************************************)
(* The strategies of a pipeline run.  What a strategy does on a document   *)
(* (accepts and extracts, reports itself unavailable, raises) is input.    *)
(***************************************************************************)
FieldNames == {"policy_number", "customer_name"}

\* what a strategy emits for one field: no entry, the "not found"
\* placeholder, or a value with its confidence
Emitted ==
    { [present |-> FALSE, value |-> None, confidence |-> 0],
      [present |-> TRUE, value |-> None, confidence |-> 0],
      [present |-> TRUE, value |-> Some("ABC-123456"), confidence |-> 540],
      [present |-> TRUE, value |-> Some("ABC-123456"), confidence |-> 900],
      [present |-> TRUE, value |-> Some("Jane Doe"), confidence |-> 900] }

\* the pipeline runs leave out the second full-confidence value, the merger
\* runs the placeholder
PipelineEmitted == {e \in Emitted : e.value # Some("Jane Doe")}
MergeEmitted == {e \in Emitted : ~e.present \/ e.value # None}

NoFields == [k \in FieldNames |-> [present |-> FALSE, value |-> None, confidence |-> 0]]

Shapes ==
    { [kind |-> "accept", emits |-> e] : e \in [FieldNames -> PipelineEmitted] }
    \cup { [kind |-> k, emits |-> NoFields] :
             k \in {"unavailable", "raise_can_process", "raise_extract"} }

\* TextPDFExtractor.can_process catches every exception and
\* OCRPDFExtractor.can_process returns a flag: only another BaseExtractor
\* can raise in can_process
ShapesAt(i) == {sh \in Shapes : sh.kind = "raise_can_process" => i > 2}

\* extractor.__class__.__name__, FieldValue.source and doc_meta by position
ClassOf(i) ==
    IF i = 1 THEN "TextPDFExtractor" ELSE IF i = 2 THEN "OCRPDFExtractor"
    ELSE "Extractor" \o ToString(i)
SourceOf(i) == IF i = 1 THEN "text" ELSE IF i = 2 THEN "ocr" ELSE "src" \o ToString(i)
MetaOf(i) ==
    IF i = 1 THEN [engine |-> "pdfplumber", num_pages |-> "1", contains_axa_xl |-> "True"]
    ELSE IF i = 2 THEN [ocr |-> "True"]
    ELSE [engine |-> "src" \o ToString(i)]

ResultOf(i, emits) ==
    ExtractionResult(
        [k \in {f \in FieldNames : emits[f].present} |->
            FieldValue(k, emits[k].value, emits[k].confidence, SourceOf(i))],
        Some("digest" \o ToString(i)),
        MetaOf(i))

Strategy(i, shape) ==
    [cls |-> ClassOf(i), kind |-> shape.kind, res |-> ResultOf(i, shape.emits),
     msg |-> IF shape.kind = "raise_can_process" THEN "can_process failed"
             ELSE "extract failed"]

(***************************************************************************)
(* pipeline.py: ExtractionPipeline.run                                     *)
(***************************************************************************)
NoRecord == <<>>

IdleMerger == ins = <<>> /\ done = 0 /\ acc = <<>> /\ pair = <<>>
IdleAgg == aggIn = <<>> /\ aggOut = <<>>
IdleSelect ==
    /\ filename = "" /\ configs_index = <<>> /\ candidates = <<>>
    /\ hint = <<>> /\ selection = <<>>
IdleStrategy ==
    /\ step = "idle" /\ config = <<>> /\ full_text = <<>> /\ found = <<>> /\ kvFound = <<>>
    /\ ocrFound = <<>> /\ marker = FALSE /\ patterns = <<>> /\ pass1 = <<>>
    /\ textResult = <<>> /\ ocrResult = <<>> /\ bothRecord = <<>>
IdleScore == scoreIn = <<>> /\ scoreOut = <<>>
IdleStorage == documents = <<>> /\ fieldRows = <<>> /\ saved = <<>> /\ got = <<>>
IdleReview ==
    /\ reviewFields = <<>> /\ editable = <<>> /\ shown = <<>> /\ save_to_db = FALSE
    /\ notice = <<>>
IdleRest == IdleStorage /\ IdleReview
IdleLater == IdleStrategy /\ IdleScore /\ IdleRest

InitPipeline ==
    /\ pc = "loop"
    /\ \E n \in 1..MaxStrategies : \E sh \in [1..n -> Shapes] :
          /\ \A i \in 1..n : sh[i] \in ShapesAt(i)
          /\ extractors = [i \in 1..n |-> Strategy(i, sh[i])]
    /\ pos = 1
    /\ results = <<>>
    /\ record = NoRecord
    /\ asked = {}
    /\ IdleMerger
    /\ IdleAgg
    /\ IdleSelect
    /\ IdleLater

\* can_process returned False and extract is called all the same
StrategyUnavailable_extracts ==
    /\ pc = "loop" /\ pos <= Len(extractors)
    /\ extractors[pos].kind = "unavailable"
    /\ results' = Append(results, extractors[pos].res)
    /\ asked' = asked \cup {pos}
    /\ pos' = pos + 1
    /\ UNCHANGED <<pc, extractors, record, notPipeline>>

\* can_process returned False: nothing is appended
StrategyUnavailable ==
    /\ pc = "loop" /\ pos <= Len(extractors)
    /\ extractors[pos].kind = "unavailable"
    /\ pos' = pos + 1
    /\ UNCHANGED <<pc, extractors, results, record, asked, notPipeline>>

\* can_process returned True and extract returned a result
StrategyAccepts ==
    /\ pc = "loop" /\ pos <= Len(extractors)
    /\ extractors[pos].kind = "accept"
    /\ results' = Append(results, extractors[pos].res)
    /\ asked' = asked \cup {pos}
    /\ pos' = pos + 1
    /\ UNCHANGED <<pc, extractors, record, notPipeline>>

\* run() without the try/except: the exception leaves run()
StrategyRaises_propagates ==
    /\ pc = "loop" /\ pos <= Len(extractors)
    /\ extractors[pos].kind \in {"raise_can_process", "raise_extract"}
    /\ pc' = "raised"
    /\ UNCHANGED <<extractors, pos, results, record, asked, notPipeline>>

\* run() with `except Exception: pass`: the failure leaves no result
StrategyRaises_swallowed ==
    /\ pc = "loop" /\ pos <= Len(extractors)
    /\ extractors[pos].kind \in {"raise_can_process", "raise_extract"}
    /\ pos' = pos + 1
    /\ UNCHANGED <<pc, extractors, results, record, asked, notPipeline>>

\* except Exception: an empty result carrying the message and the class name
StrategyRaises ==
    /\ pc = "loop" /\ pos <= Len(extractors)
    /\ extractors[pos].kind \in {"raise_can_process", "raise_extract"}
    /\ results' = Append(results,
           ExtractionResult(EmptyDict, None,
               [error |-> extractors[pos].msg, extractor |-> extractors[pos].cls]))
    /\ asked' = IF extractors[pos].kind = "raise_extract" THEN asked \cup {pos} ELSE asked
    /\ pos' = pos + 1
    /\ UNCHANGED <<pc, extractors, record, notPipeline>>

RECURSIVE FoldMerge(_, _)
\* merged = results[0]; for r in results[1:]: merged = merged.merge_with(r)
FoldMerge(merged, rest) ==
    IF rest = <<>> THEN merged ELSE FoldMerge(merge_with(merged, Head(rest)), Tail(rest))

\* the record run() returns for the list `results`
RunRecord(rs) ==
    IF rs = <<>>
    THEN [fields |-> EmptyDict, confidence |-> Zero,
          meta |-> [error |-> "No extractor available"]]
    ELSE LET merged == FoldMerge(Head(rs), Tail(rs))
         IN [fields |-> merged.fields,
             confidence |-> aggregate_confidence(merged),
             meta |-> merged.doc_meta]

\* if not results: return {...}
ReturnNoExtractor ==
    /\ pc = "loop" /\ pos > Len(extractors)
    /\ results = <<>>
    /\ record' = RunRecord(results)
    /\ pc' = "returned"
    /\ UNCHANGED <<extractors, pos, results, asked, notPipeline>>

\* merge, aggregate, return
ReturnMerged ==
    /\ pc = "loop" /\ pos > Len(extractors)
    /\ results # <<>>
    /\ record' = RunRecord(results)
    /\ pc' = "returned"
    /\ UNCHANGED <<extractors, pos, results, asked, notPipeline>>

NextPipeline ==
    \/ StrategyUnavailable
    \/ StrategyAccepts
    \/ StrategyRaises
    \/ ReturnNoExtractor
    \/ ReturnMerged

Spec == InitPipeline /\ [][NextPipeline]_vars

(***************************************************************************)
(* The merger on its own: a list of ExtractionResults folded left to       *)
(* right as run() folds them, and the two orders of merging a pair.        *)
(***************************************************************************)
IdlePipeline ==
    /\ pc = "idle" /\ extractors = <<>> /\ pos = 0 /\ results = <<>> /\ record = NoRecord
    /\ asked = {}

InitMerge ==
    /\ IdlePipeline
    /\ \E n \in 1..MaxResults : \E em \in [1..n -> [FieldNames -> MergeEmitted]] :
          ins = [i \in 1..n |-> ResultOf(i, em[i])]
    /\ done = 0
    /\ acc = <<>>
    /\ pair = <<>>
    /\ IdleAgg
    /\ IdleSelect
    /\ IdleLater

\* merged = results[0]
MergeFirst ==
    /\ ins # <<>> /\ done = 0
    /\ acc' = ins[1]
    /\ done' = 1
    /\ UNCHANGED <<notMerger, ins, pair>>

\* merged = merged.merge_with(r), for the next r
MergeNext ==
    /\ done >= 1 /\ done < Len(ins)
    /\ acc' = merge_with(acc, ins[done + 1])
    /\ done' = done + 1
    /\ UNCHANGED <<notMerger, ins, pair>>

\* the first two results merged in both orders, and the first with itself
MergePair ==
    /\ Len(ins) >= 2 /\ pair = <<>>
    /\ pair' = [ab |-> merge_with(ins[1], ins[2]),
                ba |-> merge_with(ins[2], ins[1]),
                aa |-> merge_with(ins[1], ins[1])]
    /\ UNCHANGED <<notMerger, ins, done, acc>>

NextMerge == MergeFirst \/ MergeNext \/ MergePair

SpecMerge == InitMerge /\ [][NextMerge]_vars

(***************************************************************************)
(* aggregate_confidence on its own, on results whose confidences also lie  *)
(* outside [0, 1] and whose unfilled fields also carry a confidence.       *)
(***************************************************************************)
AggFieldNames == {"policy_number", "customer_name", "address"}

AggEmitted ==
    { [present |-> FALSE, value |-> None, confidence |-> 0],
      [present |-> TRUE, value |-> None, confidence |-> 0],
      [present |-> TRUE, value |-> None, confidence |-> 900],
      [present |-> TRUE, value |-> Some(""), confidence |-> 540],
      [present |-> TRUE, value |-> Some("x"), confidence |-> 0 - 100],
      [present |-> TRUE, value |-> Some("x"), confidence |-> 800],
      [present |-> TRUE, value |-> Some("x"), confidence |-> 900],
      [present |-> TRUE, value |-> Some("x"), confidence |-> 1200] }

InitAggregate ==
    /\ IdlePipeline
    /\ IdleMerger
    /\ \E em \in [AggFieldNames -> AggEmitted] :
          aggIn = ExtractionResult(
                      [k \in {f \in AggFieldNames : em[f].present} |->
                          FieldValue(k, em[k].value, em[k].confidence, "text")],
                      None, EmptyDict)
    /\ aggOut = <<>>
    /\ IdleSelect
    /\ IdleLater

Aggregate ==
    /\ aggIn # <<>> /\ aggOut = <<>>
    /\ aggOut' = aggregate_confidence(aggIn)
    /\ UNCHANGED <<notAgg, aggIn>>

NextAggregate == Aggregate

SpecAggregate == InitAggregate /\ [][NextAggregate]_vars

(***************************************************************************)
(* Strings: str.lower, `kw in name`, str.strip, sorted                     *)
(***************************************************************************)
UpperCase == "ABCDEFGHIJKLMNOPQRSTUVWXYZ"
LowerCase == "abcdefghijklmnopqrstuvwxyz"
\* the characters of the names used here, in code-point order
CodePoints == "-.0123456789ABCDEFGHIJKLMNOPQRSTUVWXYZ_abcdefghijklmnopqrstuvwxyz"

CharAt(s, i) == SubSeq(s, i, i)
IndexIn(alphabet, c) == CHOOSE i \in 1..Len(alphabet) : CharAt(alphabet, i) = c

LowerChar(c) ==
    IF \E i \in 1..Len(UpperCase) : CharAt(UpperCase, i) = c
    THEN CharAt(LowerCase, IndexIn(UpperCase, c))
    ELSE c

RECURSIVE Pieces(_, _, _)
\* "".join(f[lo], ..., f[hi]), joined by halves
Pieces(f, lo, hi) ==
    IF lo > hi THEN ""
    ELSE IF lo = hi THEN f[lo]
    ELSE Pieces(f, lo, (lo + hi) \div 2) \o Pieces(f, (lo + hi) \div 2 + 1, hi)

Lower(s) == Pieces([j \in 1..Len(s) |-> LowerChar(CharAt(s, j))], 1, Len(s))

\* kw in s
Contains(s, kw) ==
    \E i \in 1..(Len(s) - Len(kw) + 1) : SubSeq(s, i, i + Len(kw) - 1) = kw

EndsWith(s, suffix) ==
    Len(s) >= Len(suffix) /\ SubSeq(s, Len(s) - Len(suffix) + 1, Len(s)) = suffix

IsSpace(c) == c \in {" ", "\t", "\n", "\r"}
RECURSIVE LStrip(_)
LStrip(s) == IF s # "" /\ IsSpace(CharAt(s, 1)) THEN LStrip(SubSeq(s, 2, Len(s))) ELSE s
RECURSIVE RStrip(_)
RStrip(s) ==
    IF s # "" /\ IsSpace(CharAt(s, Len(s))) THEN RStrip(SubSeq(s, 1, Len(s) - 1)) ELSE s
Strip(s) == RStrip(LStrip(s))

\* a < b on str
RECURSIVE StrLess(_, _)
StrLess(a, b) ==
    IF b = "" THEN FALSE
    ELSE IF a = "" THEN TRUE
    ELSE IF CharAt(a, 1) = CharAt(b, 1) THEN StrLess(SubSeq(a, 2, Len(a)), SubSeq(b, 2, Len(b)))
    ELSE IndexIn(CodePoints, CharAt(a, 1)) < IndexIn(CodePoints, CharAt(b, 1))

\* sorted(S) for a set of distinct names
RECURSIVE SortedNames(_)
SortedNames(S) ==
    IF S = {} THEN <<>>
    ELSE LET least == CHOOSE x \in S : \A y \in S \ {x} : StrLess(x, y)
         IN <<least>> \o SortedNames(S \ {least})

RECURSIVE Join(_, _)
\* sep.join(seq)
Join(seq, sep) ==
    IF seq = <<>> THEN ""
    ELSE IF Len(seq) = 1 THEN seq[1]
    ELSE seq[1] \o sep \o Join(Tail(seq), sep)

(***************************************************************************)
(* app_streamlit.py (and the copies in scripts/cli.py): _score_result,     *)
(* filename_hint_boost                                                     *)
(***************************************************************************)
\* (fv.get("value") or "").strip()
StrippedValue(fv) == IF fv.value = None THEN "" ELSE Strip(fv.value[1])

RECURSIVE CountFilled(_, _)
\* the loop over fields.values()
CountFilled(fields, keys) ==
    IF keys = {} THEN 0
    ELSE LET k == CHOOSE x \in keys : TRUE
         IN (IF StrippedValue(fields[k]) # "" THEN 1 ELSE 0)
                + CountFilled(fields, keys \ {k})

\* _score_result with the fill ratio unweighted
score_result_unweighted(result) ==
    LET total == Cardinality(DOMAIN result.fields)
        filled == CountFilled(result.fields, DOMAIN result.fields)
        fill_ratio == IF total # 0 THEN Frac(1000 * filled, total) ELSE Zero
    IN [score |-> FAdd(result.confidence, fill_ratio), filled |-> filled, total |-> total]

\* _score_result: confidence + 0.2 * filled / total, with filled and total
score_result(result) ==
    LET total == Cardinality(DOMAIN result.fields)
        filled == CountFilled(result.fields, DOMAIN result.fields)
        fill_ratio == IF total # 0 THEN Frac(200 * filled, total) ELSE Zero
    IN [score |-> FAdd(result.confidence, fill_ratio), filled |-> filled, total |-> total]

groups ==
    [claim |-> <<"claim", "fnol", "loss", "notice", "property-loss">>,
     policy |-> <<"policy", "schedule", "certificate">>,
     customer |-> <<"customer", "info", "information", "details">>]

GroupOf(label) ==
    IF Contains(label, "claim") THEN "claim"
    ELSE IF Contains(label, "policy") THEN "policy"
    ELSE IF Contains(label, "customer") \/ Contains(label, "info") THEN "customer"
    ELSE "none"

RECURSIVE Matching(_, _)
\* for kw in groups[group]: if kw in name: triggers.append(kw)
Matching(kws, name) ==
    IF kws = <<>> THEN <<>>
    ELSE (IF Contains(name, Head(kws)) THEN <<Head(kws)>> ELSE <<>>)
            \o Matching(Tail(kws), name)

\* filename_hint_boost without the min(0.1, ...)
filename_hint_boost_uncapped(fname, config_label) ==
    LET name == Lower(fname)
        label == Lower(config_label)
        group == GroupOf(label)
        triggers == IF group \in DOMAIN groups THEN Matching(groups[group], name) ELSE <<>>
    IN [boost |-> IF triggers # <<>> THEN 50 + 25 * (Len(triggers) - 1) ELSE 0,
        triggers |-> triggers]

\* filename_hint_boost: (boost, triggers)
filename_hint_boost(fname, config_label) ==
    LET name == Lower(fname)
        label == Lower(config_label)
        group == GroupOf(label)
        triggers == IF group \in DOMAIN groups THEN Matching(groups[group], name) ELSE <<>>
    IN [boost |-> IF triggers # <<>> THEN Min(100, 50 + 25 * (Len(triggers) - 1)) ELSE 0,
        triggers |-> triggers]

(***************************************************************************)
(* app_streamlit.py: list_config_files, run_auto_configs                   *)
(***************************************************************************)
\* entries of config/forms
DirEntries ==
    {"claim_form.json", "policy_form.json", "customer_form.json",
     "policy_claim.json", "info_sheet.json", "generic.json", "README.md"}

\* names of uploaded documents
Filenames ==
    {"property-loss-2024.pdf", "Claim_FNOL_Loss_Notice.PDF",
     "policy-schedule-claim.pdf", "customer-info-details.pdf", "scan001.pdf"}

\* list_config_files: the .json entries, sorted
list_config_files(entries) ==
    SortedNames({fn \in entries : EndsWith(Lower(fn), ".json")})

\* what the strategies find under the config tried: the text strategy with
\* both fields, one of them after a multiple-match penalty, one field missing;
\* the OCR strategy with an empty capture; no strategy at all
TextFinds ==
    { [policy_number |-> [present |-> TRUE, value |-> Some("ABC-123456"), confidence |-> 900],
       customer_name |-> [present |-> TRUE, value |-> Some("Jane Doe"), confidence |-> 900]],
      [policy_number |-> [present |-> TRUE, value |-> Some("ABC-123456"), confidence |-> 850],
       customer_name |-> [present |-> TRUE, value |-> Some("Jane Doe"), confidence |-> 900]],
      [policy_number |-> [present |-> TRUE, value |-> Some("ABC-123456"), confidence |-> 900],
       customer_name |-> [present |-> TRUE, value |-> None, confidence |-> 0]] }
OcrFinds ==
    { [policy_number |-> [present |-> TRUE, value |-> Some(""), confidence |-> 540],
       customer_name |-> [present |-> TRUE, value |-> None, confidence |-> 0]] }

\* the records pipeline.run returns to the selector
RunRecords ==
    {RunRecord(<<ResultOf(1, e)>>) : e \in TextFinds}
    \cup {RunRecord(<<ResultOf(2, e)>>) : e \in OcrFinds}
    \cup {RunRecord(<<>>)}

InitSelect ==
    /\ IdlePipeline
    /\ IdleMerger
    /\ IdleAgg
    /\ filename \in Filenames
    /\ \E entries \in SUBSET DirEntries :
          /\ configs_index = list_config_files(entries)
          /\ Len(configs_index) <= MaxConfigs
    /\ candidates = <<>>
    /\ hint = <<>>
    /\ selection = <<>>
    /\ IdleLater

\* filename_hint_boost(filename, fn) for every document and directory entry
HintBoosts == [f \in Filenames |-> [fn \in DirEntries |-> filename_hint_boost(f, fn)]]

\* f"{boost:.2f}" of the float 0.0, 0.05, 0.05 + 0.025 (above 0.075) and 0.1
Fmt2(boost) ==
    IF boost = 0 THEN "0.00" ELSE IF boost = 50 THEN "0.05"
    ELSE IF boost = 75 THEN "0.08" ELSE "0.10"

\* round(x, 3): the nearest thousandth, the even one from half way
Round3(x) ==
    LET q == x.num \div x.den
        twice == 2 * (x.num % x.den)
    IN IF twice < x.den THEN q
       ELSE IF twice > x.den THEN q + 1
       ELSE IF q % 2 = 0 THEN q ELSE q + 1

\* one iteration of `for fn, path in configs_index`
TryConfig ==
    /\ selection = <<>> /\ Len(candidates) < Len(configs_index)
    /\ LET fn == configs_index[Len(candidates) + 1]
           hb == HintBoosts[filename][fn]
           reason == IF hb.triggers # <<>>
                     THEN "+" \o Fmt2(hb.boost) \o " filename match: "
                              \o Join(hb.triggers, ", ")
                     ELSE ""
       IN /\ hint' = hb
          /\ \E result \in RunRecords :
                LET sr == score_result(result)
                IN candidates' = Append(candidates,
                       [name |-> fn, result |-> result,
                        score |-> FAdd(sr.score, Frac(hb.boost, 1)),
                        filled |-> sr.filled, total |-> sr.total, reason |-> reason])
    /\ UNCHANGED <<notSelect, filename, configs_index, selection>>

\* run_auto_configs returning an unmarked empty result
SelectNoConfigs_unmarked ==
    /\ selection = <<>> /\ Len(candidates) = Len(configs_index)
    /\ candidates = <<>>
    /\ selection' = [result |-> [fields |-> EmptyDict, confidence |-> Zero,
                                 meta |-> EmptyDict],
                     summary |-> EmptyDict, leaderboard |-> <<>>]
    /\ UNCHANGED <<notSelect, filename, configs_index, candidates, hint>>

\* if not candidates: return empty, {}, []
SelectNoConfigs ==
    /\ selection = <<>> /\ Len(candidates) = Len(configs_index)
    /\ candidates = <<>>
    /\ selection' = [result |-> [fields |-> EmptyDict, confidence |-> Zero,
                                 meta |-> [error |-> "No configs found"]],
                     summary |-> EmptyDict, leaderboard |-> <<>>]
    /\ UNCHANGED <<notSelect, filename, configs_index, candidates, hint>>

RECURSIVE MaxByScoreFrom(_, _)
MaxByScoreFrom(best, rest) ==
    IF rest = <<>> THEN best
    ELSE MaxByScoreFrom(IF FLess(best.score, Head(rest).score) THEN Head(rest) ELSE best,
                        Tail(rest))

RECURSIVE LastMaxByScoreFrom(_, _)
LastMaxByScoreFrom(best, rest) ==
    IF rest = <<>> THEN best
    ELSE LastMaxByScoreFrom(IF FLeq(best.score, Head(rest).score) THEN Head(rest) ELSE best,
                            Tail(rest))

\* max keeping the last of the equal maxima
MaxByScore_last(cands) == LastMaxByScoreFrom(Head(cands), Tail(cands))

\* max(candidates, key=score): the first of the equal maxima
MaxByScore(cands) == MaxByScoreFrom(Head(cands), Tail(cands))

RECURSIVE InsertDesc(_, _)
\* x goes behind every element whose score is not below its own
InsertDesc(x, sorted) ==
    IF sorted = <<>> THEN <<x>>
    ELSE IF FLess(Head(sorted).score, x.score) THEN <<x>> \o sorted
    ELSE <<Head(sorted)>> \o InsertDesc(x, Tail(sorted))

RECURSIVE SortedDescFrom(_, _)
SortedDescFrom(sorted, rest) ==
    IF rest = <<>> THEN sorted ELSE SortedDescFrom(InsertDesc(Head(rest), sorted), Tail(rest))

\* sorted(candidates, key=score, reverse=True): stable
SortedDesc(cands) == SortedDescFrom(<<>>, cands)

\* max, leaderboard of the top 3, selection metadata attached to the result
SelectBest ==
    /\ selection = <<>> /\ Len(candidates) = Len(configs_index)
    /\ candidates # <<>>
    /\ LET best == MaxByScore(candidates)
           best_meta == [selected_config |-> best.name, score |-> Round3(best.score),
                         filled |-> best.filled, total |-> best.total,
                         reason |-> best.reason]
           ranked == SortedDesc(candidates)
           top == SubSeq(ranked, 1, Min(3, Len(ranked)))
       IN selection' =
             [result |-> [best.result EXCEPT !.meta = DictUpdate(best.result.meta, best_meta)],
              summary |-> best_meta,
              leaderboard |-> [i \in 1..Len(top) |->
                                  [name |-> top[i].name, score |-> Round3(top[i].score),
                                   filled |-> top[i].filled, total |-> top[i].total,
                                   reason |-> top[i].reason]]]
    /\ UNCHANGED <<notSelect, filename, configs_index, candidates, hint>>

NextSelect == TryConfig \/ SelectNoConfigs \/ SelectBest

SpecSelect == InitSelect /\ [][NextSelect]_vars

(***************************************************************************)
(* Claims about the merger                                                 *)
(***************************************************************************)
\* the inputs among the first n that hold field k
Holders(k, n) == {i \in 1..n : k \in DOMAIN ins[i].fields}
ConfOf(i, k) == ins[i].fields[k].confidence
\* the inputs among the first n that hold k with the greatest confidence
Best(k, n) == {i \in Holders(k, n) : \A j \in Holders(k, n) : ConfOf(j, k) <= ConfOf(i, k)}
Earliest(S) == CHOOSE i \in S : \A j \in S : i <= j

\* C1: after folding the first `done` results left to right, the key set is
\* the union of their key sets and every field holds the FieldValue of the
\* earliest input among those holding it with the maximum confidence.
C1_FoldKeepsEarliestMaximum ==
    done >= 1 =>
        /\ DOMAIN acc.fields = UNION {DOMAIN ins[i].fields : i \in 1..done}
        /\ \A k \in DOMAIN acc.fields :
              acc.fields[k] = ins[Earliest(Best(k, done))].fields[k]

\* three results folded, a field on which two inputs tie at the maximum above
\* a third, and a field that not every input holds
C1_Witness ==
    /\ done = 3 /\ Len(ins) = 3
    /\ \E k \in FieldNames :
          /\ Holders(k, 3) = {1, 2, 3}
          /\ Cardinality(Best(k, 3)) = 2
          /\ \E i, j \in Best(k, 3) : ins[i].fields[k].value # ins[j].fields[k].value
    /\ \E k \in FieldNames : Holders(k, 3) \notin {{}, {1, 2, 3}}

A == ins[1]
B == ins[2]
BothHold == (DOMAIN A.fields) \cap (DOMAIN B.fields)

\* C2 as stated: merge is idempotent, and A.merge_with(B) and B.merge_with(A)
\* hold the same FieldValue for every field name.
C2_Original ==
    pair # <<>> =>
        /\ pair.aa.fields = A.fields
        /\ pair.ab.fields = pair.ba.fields

\* C2 amended: merge is idempotent; the two orders agree on the key set and on
\* every field's winning confidence, and on the whole FieldValue of every
\* field that only one input holds or that the inputs hold with different
\* confidences; on an exact tie each order keeps its own first operand's entry.
C2_CommutativeUpToTies ==
    pair # <<>> =>
        /\ pair.aa.fields = A.fields
        /\ DOMAIN pair.ab.fields = DOMAIN pair.ba.fields
        /\ \A k \in DOMAIN pair.ab.fields :
              /\ pair.ab.fields[k].confidence = pair.ba.fields[k].confidence
              /\ (k \notin BothHold \/ A.fields[k].confidence # B.fields[k].confidence)
                    => pair.ab.fields[k] = pair.ba.fields[k]
              /\ (k \in BothHold /\ A.fields[k].confidence = B.fields[k].confidence)
                    => pair.ab.fields[k] = A.fields[k] /\ pair.ba.fields[k] = B.fields[k]

\* a pair merged both ways with one field tied between different entries and
\* another field held with different confidences
C2_Witness ==
    /\ pair # <<>>
    /\ \E k \in BothHold :
          A.fields[k].confidence = B.fields[k].confidence /\ A.fields[k] # B.fields[k]
    /\ \E k \in BothHold : A.fields[k].confidence < B.fields[k].confidence

(***************************************************************************)
(* Claims about the pipeline                                               *)
(***************************************************************************)
Accepting == {i \in 1..Len(extractors) : extractors[i].kind = "accept"}
Raising ==
    {i \in 1..Len(extractors) :
        extractors[i].kind \in {"raise_can_process", "raise_extract"}}
Unavailable == {i \in 1..Len(extractors) : extractors[i].kind = "unavailable"}

\* the merge of the results of the strategies that did not raise, stated
\* field by field: the earliest of the accepting strategies that hold the
\* field with the greatest confidence
AcceptedHolders(k) == {i \in Accepting : k \in DOMAIN extractors[i].res.fields}
AcceptedBest(k) ==
    {i \in AcceptedHolders(k) : \A j \in AcceptedHolders(k) :
        extractors[j].res.fields[k].confidence <= extractors[i].res.fields[k].confidence}
AcceptedFields ==
    [k \in {f \in FieldNames : AcceptedHolders(f) # {}} |->
        extractors[Earliest(AcceptedBest(k))].res.fields[k]]
AcceptedFilled == {k \in DOMAIN AcceptedFields : AcceptedFields[k].value # None}
AcceptedTotal ==
    SumOver([k \in AcceptedFilled |-> AcceptedFields[k].confidence], AcceptedFilled)

\* C3: a raising strategy never aborts run: the run is never left by an
\* exception, every strategy is consulted and every accepting one has its
\* result in the list, and the returned record has fields, confidence and
\* meta, its fields and confidence being those of the merge of the strategies
\* that did not raise.
C3_RaisingStrategyNeverAborts ==
    /\ pc \in {"loop", "returned"}
    /\ pc = "returned" =>
          /\ pos = Len(extractors) + 1
          /\ \A i \in Accepting : \E j \in 1..Len(results) : results[j] = extractors[i].res
          /\ DOMAIN record = {"fields", "confidence", "meta"}
          /\ record.fields = AcceptedFields
          /\ record.confidence.num * Cardinality(AcceptedFilled)
                = record.confidence.den * AcceptedTotal
          /\ AcceptedFilled = {} => record.confidence = Zero

\* a returned run in which a strategy raised and a later strategy filled a field
C3_Witness ==
    /\ pc = "returned"
    /\ \E i \in Raising : \E j \in Accepting : i < j /\ AcceptedFilled # {}
    /\ \E i \in Raising : \E j \in Accepting : j < i

\* C4: the returned metadata holds the failure record (message and class
\* name) of every strategy that raised.
C4_EveryFailureRecorded ==
    pc = "returned" =>
        \A i \in Raising :
            /\ {"error", "extractor"} \subseteq DOMAIN record.meta
            /\ record.meta["error"] = extractors[i].msg
            /\ record.meta["extractor"] = extractors[i].cls

LastRaising == CHOOSE i \in Raising : \A j \in Raising : j <= i

\* C5 as stated: when no strategy ran without raising, the record is empty
\* with confidence 0.0 and the "No extractor available" error.
C5_Original ==
    (pc = "returned" /\ Accepting = {}) =>
        /\ record.fields = EmptyDict
        /\ record.confidence = Zero
        /\ "error" \in DOMAIN record.meta
        /\ record.meta["error"] = "No extractor available"

\* C5 amended: when no strategy ran without raising, run returns empty
\* fields, confidence 0.0 and metadata with an error entry; the entry is
\* "No extractor available" when every strategy was unavailable, and the
\* message and class name of the last raising strategy when one raised.
C5_NoResultIsEmptyWithError ==
    (pc = "returned" /\ Accepting = {}) =>
        /\ record.fields = EmptyDict
        /\ record.confidence = Zero
        /\ "error" \in DOMAIN record.meta
        /\ Raising = {} => record.meta = [error |-> "No extractor available"]
        /\ Raising # {} =>
              record.meta = [error |-> extractors[LastRaising].msg,
                             extractor |-> extractors[LastRaising].cls]

\* a returned run in which one strategy was unavailable and another raised
C5_Witness ==
    /\ pc = "returned" /\ Accepting = {}
    /\ Raising # {} /\ Unavailable # {}

(***************************************************************************)
(* Claims about aggregate_confidence                                       *)
(***************************************************************************)
AggFilled == {k \in DOMAIN aggIn.fields : aggIn.fields[k].value # None}
Clamp(c) == IF c < 0 THEN 0 ELSE IF c > 1000 THEN 1000 ELSE c
AggTotal == SumOver([k \in AggFilled |-> Clamp(aggIn.fields[k].confidence)], AggFilled)

\* C6: the aggregate is the mean of the clamped confidences of the fields
\* whose value is not None, 0.0 when there is no such field, and within [0, 1].
C6_AggregateIsMeanOfFilled ==
    aggOut # <<>> =>
        /\ AggFilled = {} => aggOut = Zero
        /\ AggFilled # {} => aggOut.num * Cardinality(AggFilled) = aggOut.den * AggTotal
        /\ aggOut.den > 0 /\ 0 <= aggOut.num /\ aggOut.num <= 1000 * aggOut.den

\* the case of test_aggregate_confidence: 0.9, 0.8 and an unfilled field give 0.85
C6_Witness ==
    /\ aggOut = Frac(850, 1)
    /\ DOMAIN aggIn.fields = AggFieldNames
    /\ aggIn.fields["policy_number"].confidence = 900
    /\ aggIn.fields["customer_name"].confidence = 800
    /\ aggIn.fields["address"].value = None

(***************************************************************************)
(* Claims about the config auto-selector                                   *)
(***************************************************************************)
N == Len(candidates)
Returned == selection # <<>>
ScoreOf(i) == candidates[i].score
BoostOf(i) == Frac(HintBoosts[filename][candidates[i].name].boost, 1)
\* aggregate confidence + 0.2 * fill ratio, before the filename boost
BaseOf(i) == score_result(candidates[i].result).score
Selected == CHOOSE i \in 1..N : candidates[i].name = selection.summary.selected_config
\* the first candidate that no candidate beats
FirstHighest ==
    CHOOSE i \in 1..N :
        /\ \A j \in 1..N : FLeq(ScoreOf(j), ScoreOf(i))
        /\ \A j \in 1..(i - 1) : FLess(ScoreOf(j), ScoreOf(i))
OnBoard == {selection.leaderboard[p].name : p \in 1..Len(selection.leaderboard)}

C7_SelectionAndBoard ==
    /\ selection.summary.selected_config = candidates[FirstHighest].name
    /\ selection.summary.score = Round3(ScoreOf(FirstHighest))
    /\ selection.result.fields = candidates[FirstHighest].result.fields
    /\ Len(selection.leaderboard) = Min(3, N)
    /\ \A p \in 1..(Len(selection.leaderboard) - 1) :
          selection.leaderboard[p].score >= selection.leaderboard[p + 1].score
    /\ selection.leaderboard[1].name = selection.summary.selected_config
    /\ \A p \in 1..Len(selection.leaderboard) : \E i \in 1..N :
          /\ candidates[i].name = selection.leaderboard[p].name
          /\ Round3(ScoreOf(i)) = selection.leaderboard[p].score
          /\ \A j \in 1..N :
                candidates[j].name \notin OnBoard => FLeq(ScoreOf(j), ScoreOf(i))

\* C7 as stated: the first strictly highest score is selected, the leaderboard
\* holds the top min(3, n) in non-increasing order starting with the selected
\* config, and a config with a filename boost that exceeds the amount by which
\* its base score trails every other candidate's base score is selected.
C7_Original ==
    (Returned /\ N > 0) =>
        /\ C7_SelectionAndBoard
        /\ \A c \in 1..N :
              (/\ FLess(Zero, BoostOf(c))
               /\ \A d \in 1..N \ {c} : FLess(BaseOf(d), FAdd(BaseOf(c), BoostOf(c))))
                  => Selected = c

\* C7 amended: as stated, but the boost has to exceed the amount by which the
\* config's base score trails every other candidate's base score plus that
\* candidate's own filename boost; when no other candidate is boosted (the
\* claim config for "property-loss-2024.pdf") that is the stated condition.
C7_BoostedScoreDecides ==
    (Returned /\ N > 0) =>
        /\ C7_SelectionAndBoard
        /\ \A c \in 1..N :
              (/\ FLess(Zero, BoostOf(c))
               /\ \A d \in 1..N \ {c} :
                     FLess(FAdd(BaseOf(d), BoostOf(d)), FAdd(BaseOf(c), BoostOf(c))))
                  => Selected = c
        /\ \A c \in 1..N :
              (/\ FLess(Zero, BoostOf(c))
               /\ \A d \in 1..N \ {c} :
                     /\ BoostOf(d) = Zero
                     /\ FLess(BaseOf(d), FAdd(BaseOf(c), BoostOf(c))))
                  => Selected = c

\* four configs tried on "property-loss-2024.pdf": the claim config trails
\* another one by less than its boost and is selected, and two candidates
\* share a score
C7_Witness ==
    /\ Returned /\ N = 4
    /\ filename = "property-loss-2024.pdf"
    /\ candidates[Selected].name = "claim_form.json"
    /\ \E d \in 1..N : FLess(BaseOf(Selected), BaseOf(d))
    /\ \E i, j \in 1..N : i # j /\ ScoreOf(i) = ScoreOf(j)

FilledOf(r) ==
    {k \in DOMAIN r.fields : r.fields[k].value # None /\ r.fields[k].value # Some("")}

\* C8: every candidate's score is aggregate confidence + 0.2 * filled / total
\* + filename boost, total being the number of fields of the record and filled
\* the number of those with a non-empty value, the fill term being 0 when
\* total is 0; the score lies in [0, 1.3] and filled <= total.
C8_CompositeScore ==
    \A i \in 1..N :
        LET c == candidates[i]
            total == Cardinality(DOMAIN c.result.fields)
            filled == Cardinality(FilledOf(c.result))
            t == IF total = 0 THEN 1 ELSE total
            conf == c.result.confidence
            boost == HintBoosts[filename][c.name].boost
        IN /\ c.total = total
           /\ c.filled = filled
           /\ filled <= total
           /\ total = 0 => filled = 0
           /\ c.score.num * (conf.den * t)
                 = c.score.den * (conf.num * t + 200 * filled * conf.den + boost * conf.den * t)
           /\ 0 <= c.score.num /\ c.score.num <= 1300 * c.score.den

\* candidates with no field at all, with a confident empty value, and with
\* one of two fields filled and a filename boost
C8_Witness ==
    /\ \E i \in 1..N : candidates[i].total = 0
    /\ \E i \in 1..N :
          /\ candidates[i].total = 2 /\ candidates[i].filled = 0
          /\ candidates[i].result.confidence # Zero
    /\ \E i \in 1..N :
          /\ candidates[i].total = 2 /\ candidates[i].filled = 1
          /\ HintBoosts[filename][candidates[i].name].boost = 75

ClaimKeywords == {"claim", "fnol", "loss", "notice", "property-loss"}
PolicyKeywords == {"policy", "schedule", "certificate"}
CustomerKeywords == {"customer", "info", "information", "details"}

\* the keywords of the label's group that occur in the lower-cased file name
ExpectedMatches(fname, label) ==
    LET l == Lower(label)
        name == Lower(fname)
        kws == IF Contains(l, "claim") THEN ClaimKeywords
               ELSE IF Contains(l, "policy") THEN PolicyKeywords
               ELSE IF Contains(l, "customer") \/ Contains(l, "info") THEN CustomerKeywords
               ELSE {}
    IN {kw \in kws : Contains(name, kw)}
ExpectedMatchTable ==
    [f \in Filenames |-> [fn \in DirEntries |-> ExpectedMatches(f, fn)]]
BoostSteps == <<50, 75, 100, 100, 100>>

\* C9: the label's group is chosen by claim > policy > customer/info, the
\* triggers are exactly the group's keywords found in the lower-cased file
\* name, and the boost is 0 without a match and otherwise
\* min(0.1, 0.05 + 0.025 * (matched - 1)): one of 0, 0.05, 0.075, 0.1, and
\* non-decreasing in the number of matches.
C9_FilenameHintBoost ==
    hint # <<>> =>
        LET matched == ExpectedMatchTable[filename][candidates[N].name]
            m == Cardinality(matched)
        IN /\ {hint.triggers[p] : p \in 1..Len(hint.triggers)} = matched
           /\ Len(hint.triggers) = m
           /\ m = 0 => hint.boost = 0
           /\ m > 0 => hint.boost = Min(100, 50 + 25 * (m - 1))
           /\ m > 0 => hint.boost = BoostSteps[m]
           /\ hint.boost \in {0, 50, 75, 100}

\* a label naming both claim and policy on a file name with four claim
\* keywords: the group is claim and the boost is capped
C9_Witness ==
    /\ hint # <<>>
    /\ candidates[N].name = "policy_claim.json"
    /\ hint.triggers = <<"claim", "fnol", "loss", "notice">>
    /\ hint.boost = 100

Digits == "0123456789"
Letters == UpperCase \o LowerCase
Whitespace == " \t\n\r"

Lit(s) == [op |-> "lit", s |-> s, low |-> Lower(s)]
Set(chars) == [op |-> "set", chars |-> chars, neg |-> FALSE]
NotSet(chars) == [op |-> "set", chars |-> chars, neg |-> TRUE]
Rep(set, min, max) == [op |-> "rep", set |-> set, min |-> min, max |-> max, lazy |-> FALSE]
\* the open-ended repetitions `{n,}`, `*`, `+`: no maximum
AtLeast(set, min) == [op |-> "rep", set |-> set, min |-> min, max |-> 0 - 1, lazy |-> FALSE]
LazyRep(set, min, max) == [op |-> "rep", set |-> set, min |-> min, max |-> max, lazy |-> TRUE]
Opt(r) == [op |-> "opt", r |-> r]
Cat(rs) == [op |-> "cat", rs |-> rs]
Alt(rs) == [op |-> "alt", rs |-> rs]
Group(r) == [op |-> "grp", r |-> r]
Ahead(r) == [op |-> "ahead", r |-> r]
WordBoundary == [op |-> "wordb"]

\* \s, \S, \d, [\s\S]
Space == Set(Whitespace)
NonSpace == NotSet(Whitespace)
Digit == Set(Digits)
AnyChar == NotSet("")

UpperChar(c) ==
    IF \E i \in 1..Len(LowerCase) : CharAt(LowerCase, i) = c
    THEN CharAt(UpperCase, IndexIn(LowerCase, c))
    ELSE c

HasChar(chars, c) == \E i \in 1..Len(chars) : CharAt(chars, i) = c

\* does the character c belong to the class; under re.IGNORECASE (ic) the
\* text is searched in lower case and a letter also belongs to the class when
\* its upper case does
InSet(set, c, ic) ==
    LET member == HasChar(set.chars, c) \/ (ic /\ HasChar(set.chars, UpperChar(c)))
    IN IF set.neg THEN ~member ELSE member

RECURSIVE RunLength(_, _, _, _, _)
\* how many characters from position i on belong to the class, at most max
\* of them (a negative max is no maximum)
RunLength(set, t, i, ic, max) ==
    IF max = 0 \/ i > Len(t) \/ ~InSet(set, CharAt(t, i), ic) THEN 0
    ELSE 1 + RunLength(set, t, i + 1, ic, max - 1)

IsWordChar(c) == HasChar(Letters \o Digits \o "_", c)

RECURSIVE Chain(_, _, _)
\* f[lo] + ... + f[hi] on lists, added by halves
Chain(f, lo, hi) ==
    IF lo > hi THEN <<>>
    ELSE IF lo = hi THEN f[lo]
    ELSE Chain(f, lo, (lo + hi) \div 2) \o Chain(f, (lo + hi) \div 2 + 1, hi)

RECURSIVE Match(_, _, _, _, _)
RECURSIVE MatchCat(_, _, _, _, _, _)
RECURSIVE MatchAlt(_, _, _, _, _, _)
RECURSIVE Continue(_, _, _, _, _, _)

\* the matches of r at position i of t, in the order backtracking tries them
\* (t is in lower case when ic holds)
Match(r, t, i, g, ic) ==
    IF r.op = "lit" THEN
        LET n == Len(r.s)
        IN IF i + n - 1 <= Len(t) /\ SubSeq(t, i, i + n - 1) = (IF ic THEN r.low ELSE r.s)
           THEN <<[end |-> i + n, g |-> g]>> ELSE <<>>
    ELSE IF r.op = "set" THEN
        IF i <= Len(t) /\ InSet(r, CharAt(t, i), ic)
        THEN <<[end |-> i + 1, g |-> g]>> ELSE <<>>
    ELSE IF r.op = "rep" THEN
        LET n == RunLength(r.set, t, i, ic, r.max)
        IN IF n < r.min THEN <<>>
           ELSE [k \in 1..(n - r.min + 1) |->
                    [end |-> i + (IF r.lazy THEN r.min + k - 1 ELSE n - k + 1), g |-> g]]
    ELSE IF r.op = "opt" THEN Match(r.r, t, i, g, ic) \o <<[end |-> i, g |-> g]>>
    ELSE IF r.op = "cat" THEN MatchCat(r.rs, 1, t, i, g, ic)
    ELSE IF r.op = "alt" THEN MatchAlt(r.rs, 1, t, i, g, ic)
    ELSE IF r.op = "grp" THEN
        LET inner == Match(r.r, t, i, g, ic)
        IN [k \in 1..Len(inner) |-> [end |-> inner[k].end, g |-> <<i, inner[k].end>>]]
    ELSE IF r.op = "ahead" THEN
        IF Match(r.r, t, i, g, ic) # <<>> THEN <<[end |-> i, g |-> g]>> ELSE <<>>
    ELSE \* "wordb"
        LET before == i > 1 /\ IsWordChar(CharAt(t, i - 1))
            after == i <= Len(t) /\ IsWordChar(CharAt(t, i))
        IN IF before # after THEN <<[end |-> i, g |-> g]>> ELSE <<>>

\* rs[k], rs[k + 1], ... one after the other
MatchCat(rs, k, t, i, g, ic) ==
    IF k > Len(rs) THEN <<[end |-> i, g |-> g]>>
    ELSE Continue(Match(rs[k], t, i, g, ic), rs, k + 1, t, ic, 1)

\* for each match of the head from the h-th on, in order, the matches of
\* the rest
Continue(heads, rs, k, t, ic, h) ==
    Chain([j \in h..Len(heads) |-> MatchCat(rs, k, t, heads[j].end, heads[j].g, ic)],
          h, Len(heads))

\* rs[k] | rs[k + 1] | ...
MatchAlt(rs, k, t, i, g, ic) ==
    Chain([j \in k..Len(rs) |-> Match(rs[j], t, i, g, ic)], k, Len(rs))

NoMatch == [kind |-> "none"]
BadPattern == [kind |-> "error"]
Matched(group) == [kind |-> "match", group |-> group]

\* the match at the least start that has one, and group 1 of its first
\* way, read from t
Leftmost(t, hits) ==
    LET starts == {j \in DOMAIN hits : hits[j] # <<>>}
    IN IF starts = {} THEN NoMatch
       ELSE LET ms == hits[CHOOSE j \in starts : \A k \in starts : j <= k]
            IN Matched(IF ms[1].g = <<>> THEN ""
                       ELSE SubSeq(t, ms[1].g[1], ms[1].g[2] - 1))

\* the leftmost match from position i on; the match is looked for in `low`,
\* the text in lower case under re.IGNORECASE, and group 1 is read from t
SearchFrom(r, t, low, i, ic) ==
    Leftmost(t, [j \in i..(Len(t) + 1) |-> Match(r, low, j, <<>>, ic)])

\* re.search(r, t): the leftmost match, its group 1
Search(r, t, ic) == SearchFrom(r, t, IF ic THEN Lower(t) ELSE t, 1, ic)

\* re.fullmatch(r, t) is not None
FullMatch(r, t, ic) ==
    LET ms == Match(r, IF ic THEN Lower(t) ELSE t, 1, <<>>, ic)
    IN \E k \in 1..Len(ms) : ms[k].end = Len(t) + 1

\* re.search(r, t) is not None
Occurs(r, t, ic) == Search(r, t, ic) # NoMatch

(***************************************************************************)
(* extractors/text_pdf.py: DEFAULT_PATTERNS and _score                     *)
(***************************************************************************)
S0 == AtLeast(Space, 0)             \* \s*
S1 == AtLeast(Space, 1)             \* \s+
Sep == Opt(Set(":#-"))              \* [:#\-]?
Words(ws) == Cat([k \in 1..(2 * Len(ws) - 1) |-> IF k % 2 = 1 THEN Lit(ws[(k + 1) \div 2]) ELSE S0])
WordsApart(ws) == Cat([k \in 1..(2 * Len(ws) - 1) |-> IF k % 2 = 1 THEN Lit(ws[(k + 1) \div 2]) ELSE S1])
\* LABEL\s*[:#\-]?\s*(CAPTURE)
Labelled(label, capture) == Cat(<<label, S0, Sep, S0, Group(capture)>>)

NameChars == Set(Letters \o " ,.'-")
NameCapture ==
    Cat(<<Set(UpperCase), AtLeast(NameChars, 2),
          Opt(Cat(<<S1, Set(UpperCase), AtLeast(NameChars, 1)>>))>>)
DateCapture ==
    Cat(<<Rep(Digit, 2, 4), Set("-/."), Rep(Digit, 1, 2), Set("-/."), Rep(Digit, 1, 2)>>)

\* the pattern strings of DEFAULT_PATTERNS, by name (the documents are ASCII:
\* the currency class holds $ only)
Regex ==
    [customer_name_1 |->
        Labelled(Alt(<<Lit("Insured"), WordsApart(<<"Insured", "Name">>),
                       WordsApart(<<"Name", "of", "Insured">>),
                       WordsApart(<<"Customer", "Name">>),
                       WordsApart(<<"Policy", "Holder">>)>>), NameCapture),
     customer_name_2 |-> Labelled(Lit("Name"), NameCapture),
     address_1 |->
        Cat(<<Lit("Address"), S0, Sep, S0, Group(LazyRep(AnyChar, 5, 160)), Lit("\n"),
              Ahead(Cat(<<AtLeast(NonSpace, 1), S0, Set(":#-")>>))>>),
     address_2 |-> Labelled(Lit("Address"), Rep(AnyChar, 5, 120)),
     policy_number_1 |->
        Cat(<<Lit("Policy"), S0,
              Opt(Alt(<<Cat(<<Lit("No"), Opt(Lit("."))>>), Lit("Number"), Lit("#")>>)),
              S0, Sep, S0,
              Group(Cat(<<Set(UpperCase \o Digits),
                          AtLeast(Set(UpperCase \o Digits \o "-/"), 4)>>))>>),
     claim_type_1 |-> Labelled(Words(<<"Claim", "Type">>), Rep(Set(Letters \o " /"), 3, 80)),
     claim_type_2 |->
        Labelled(Words(<<"Type", "of", "Claim">>), Rep(Set(Letters \o " /"), 3, 80)),
     date_of_incident_1 |->
        Labelled(Alt(<<Words(<<"Date", "of", "Incident">>), Words(<<"Loss", "Date">>),
                       Words(<<"Date", "of", "Loss">>)>>), DateCapture),
     claim_amount_1 |->
        Labelled(Alt(<<Words(<<"Claim", "Amount">>), Words(<<"Amount", "Claimed">>),
                       Cat(<<Words(<<"Total", "Claim">>), Opt(Lit("ed"))>>),
                       Lit("Amount")>>),
                 Cat(<<Opt(Set("$")), Rep(Space, 0, 1), AtLeast(Set(Digits \o ",."), 1),
                       Opt(Cat(<<Lit("."), Rep(Digit, 2, 2)>>))>>)),
     agent_1 |->
        Labelled(Alt(<<Lit("Agent"), Lit("Broker"), Lit("Branch"), Lit("Producer")>>),
                 Rep(Set(Letters \o Digits \o " .,'&-"), 3, 120)),
     form_type_1 |->
        Group(Cat(<<Lit("AXA"), S0, Lit("XL"), LazyRep(AnyChar, 0, 40),
                    Alt(<<Lit("Claim"), Lit("Form"), Lit("Policy"), Lit("Customer"),
                          Lit("Schedule"), Lit("Certificate")>>)>>)),
     submission_date_1 |->
        Labelled(Alt(<<Words(<<"Submission", "Date">>), Words(<<"Date", "Submitted">>),
                       Words(<<"Issue", "Date">>), Lit("Submission")>>), DateCapture)]

DEFAULT_PATTERNS ==
    [customer_name |-> <<"customer_name_1", "customer_name_2">>,
     address |-> <<"address_1", "address_2">>,
     policy_number |-> <<"policy_number_1">>,
     claim_type |-> <<"claim_type_1", "claim_type_2">>,
     date_of_incident |-> <<"date_of_incident_1">>,
     claim_amount |-> <<"claim_amount_1">>,
     agent |-> <<"agent_1">>,
     form_type |-> <<"form_type_1">>,
     submission_date |-> <<"submission_date_1">>]

RECURSIVE Split(_)
\* str.split(): the runs of non-whitespace characters
Split(s) ==
    LET t == LStrip(s)
        n == RunLength(NonSpace, t, 1, FALSE, 0 - 1)
    IN IF t = "" THEN <<>> ELSE <<SubSeq(t, 1, n)>> \o Split(SubSeq(t, n + 1, Len(t)))

PolicyFormat == AtLeast(Set(UpperCase \o Digits \o "-/"), 6)
YearFirstDate ==
    Cat(<<Rep(Digit, 4, 4), Set("-/."), Rep(Digit, 1, 2), Set("-/."), Rep(Digit, 1, 2)>>)
YearLastDate ==
    Cat(<<Rep(Digit, 1, 2), Set("-/."), Rep(Digit, 1, 2), Set("-/."), Rep(Digit, 2, 4)>>)
AmountFormat ==
    Cat(<<Opt(Set("$")), Rep(Space, 0, 1), AtLeast(Set(Digits \o ",."), 1),
          Opt(Group(Cat(<<Lit("."), Rep(Digit, 2, 2)>>)))>>)
StreetKeyword ==
    Cat(<<Group(Alt(<<Lit("St"), Lit("Street"), Lit("Ave"), Lit("Avenue"), Lit("Rd"),
                      Lit("Road"), Lit("Blvd"), Lit("Lane"), Lit("Ln"), Lit("Drive"),
                      Lit("Dr"), Lit("Ct"), Lit("Court")>>)), WordBoundary>>)

\* _score without the length check on the first two tokens of a name
_score_two_tokens(field, value) ==
    LET v == Strip(value)
    IN IF v = "" THEN 0
       ELSE IF field = "policy_number"
            THEN IF FullMatch(PolicyFormat, v, FALSE) THEN 900 ELSE 600
       ELSE IF field \in {"date_of_incident", "submission_date"}
            THEN IF FullMatch(YearFirstDate, v, FALSE) \/ FullMatch(YearLastDate, v, FALSE)
                 THEN 850 ELSE 500
       ELSE IF field = "claim_amount"
            THEN IF FullMatch(AmountFormat, v, FALSE) THEN 850 ELSE 500
       ELSE IF field = "customer_name"
            THEN IF Len(Split(v)) >= 2 THEN 800 ELSE 500
       ELSE IF field = "address"
            THEN IF Occurs(Digit, v, FALSE) /\ Occurs(StreetKeyword, v, TRUE)
                 THEN 750 ELSE 500
       ELSE IF field \in {"agent", "claim_type", "form_type"}
            THEN IF Len(v) >= 3 THEN 600 ELSE 400
       ELSE 500

\* TextPDFExtractor._score, in thousandths
_score(field, value) ==
    LET v == Strip(value)
    IN IF v = "" THEN 0
       ELSE IF field = "policy_number"
            THEN IF FullMatch(PolicyFormat, v, FALSE) THEN 900 ELSE 600
       ELSE IF field \in {"date_of_incident", "submission_date"}
            THEN IF FullMatch(YearFirstDate, v, FALSE) \/ FullMatch(YearLastDate, v, FALSE)
                 THEN 850 ELSE 500
       ELSE IF field = "claim_amount"
            THEN IF FullMatch(AmountFormat, v, FALSE) THEN 850 ELSE 500
       ELSE IF field = "customer_name"
            THEN LET parts == Split(v)
                 IN IF Len(parts) >= 2 /\ \A k \in 1..2 : Len(parts[k]) >= 2
                    THEN 800 ELSE 500
       ELSE IF field = "address"
            THEN IF Occurs(Digit, v, FALSE) /\ Occurs(StreetKeyword, v, TRUE)
                 THEN 750 ELSE 500
       ELSE IF field \in {"agent", "claim_type", "form_type"}
            THEN IF Len(v) >= 3 THEN 600 ELSE 400
       ELSE 500

(***************************************************************************)
(* TextPDFExtractor.extract on the outcomes of re.search: `found` gives,   *)
(* for each pattern, what the search on the normalized text returns, and   *)
(* `kvFound` the values the label scanner reads for each field.            *)
(***************************************************************************)
MaxConfigPatterns == 2      \* patterns a config lists for one field

\* (config or {}).get("patterns", {})
cfg_patterns == IF config = None THEN EmptyDict ELSE config[1]

RECURSIVE Uniq(_, _)
\* de-duplicate while preserving order
Uniq(merged_list, seen) ==
    IF merged_list = <<>> THEN <<>>
    ELSE IF Head(merged_list) \in seen THEN Uniq(Tail(merged_list), seen)
    ELSE <<Head(merged_list)>> \o Uniq(Tail(merged_list), seen \cup {Head(merged_list)})

\* the dict `patterns`: the defaults of each field, then the config's
MergedPatterns(cfg) ==
    [k \in (DOMAIN DEFAULT_PATTERNS) \cup (DOMAIN cfg) |->
        Uniq((IF k \in DOMAIN DEFAULT_PATTERNS THEN DEFAULT_PATTERNS[k] ELSE <<>>)
                \o (IF k \in DOMAIN cfg THEN cfg[k] ELSE <<>>), {})]

RECURSIVE TryPatterns(_, _, _, _)
\* the loop `for pat in pats`: a pattern that does not compile or does not
\* match is passed over, a match counts and replaces the best candidate when
\* it scores strictly higher
TryPatterns(field, pats, hits, st) ==
    IF pats = <<>> THEN st
    ELSE LET m == hits[Head(pats)]
         IN IF m.kind # "match" THEN TryPatterns(field, Tail(pats), hits, st)
            ELSE LET candidate == Strip(m.group)
                     conf == _score(field, candidate)
                     better == conf > st.best_conf
                 IN TryPatterns(field, Tail(pats), hits,
                        [best_val |-> IF better THEN Some(candidate) ELSE st.best_val,
                         best_conf |-> IF better THEN conf ELSE st.best_conf,
                         multi_hits |-> st.multi_hits + 1])

\* one iteration of the field loop taking the first pattern that matches
PatternField_first_match(field, pats, hits) ==
    LET matching == {k \in 1..Len(pats) : hits[pats[k]].kind = "match"}
        first == CHOOSE k \in matching : \A j \in matching : k <= j
        candidate == Strip(hits[pats[first]].group)
        conf == _score(field, candidate)
        best_conf == IF Cardinality(matching) > 1 /\ conf > 200 THEN conf - 50 ELSE conf
    IN IF matching # {} /\ conf > 0
       THEN FieldValue(field, Some(candidate), Max(0, Min(1000, best_conf)), "text")
       ELSE FieldValue(field, None, 0, "text")

\* one iteration of `for field, pats in patterns.items()`
PatternField(field, pats, hits) ==
    LET st == TryPatterns(field, pats, hits,
                  [best_val |-> None, best_conf |-> 0, multi_hits |-> 0])
        best_conf == IF st.multi_hits > 1 /\ st.best_conf > 200
                     THEN st.best_conf - 50 ELSE st.best_conf
    IN IF st.best_val # None
       THEN FieldValue(field, st.best_val, Max(0, Min(1000, best_conf)), "text")
       ELSE FieldValue(field, None, 0, "text")

\* re.sub(r"\s{2,}", " ", value): a run of two or more leaves one space
\* where it starts
CollapseSpaces(s) ==
    Pieces([j \in 1..Len(s) |->
              IF ~HasChar(Whitespace, CharAt(s, j)) THEN CharAt(s, j)
              ELSE IF j > 1 /\ HasChar(Whitespace, CharAt(s, j - 1)) THEN ""
              ELSE IF j < Len(s) /\ HasChar(Whitespace, CharAt(s, j + 1)) THEN " "
              ELSE CharAt(s, j)], 1, Len(s))

RECURSIVE KeepBest(_, _, _)
\* _kv_scan, for the values read for one field: each non-empty value is
\* scored with the 0.1 bonus, the first of the highest confidence is kept
KeepBest(field, values, cur) ==
    IF values = <<>> THEN cur
    ELSE LET value == Strip(CollapseSpaces(Head(values)))
             conf == Min(1000, _score(field, value) + 100)
         IN KeepBest(field, Tail(values),
                IF Head(values) # "" /\ (cur = None \/ conf > cur[1].conf)
                THEN Some([value |-> value, conf |-> conf]) ELSE cur)

\* the dict _kv_scan returns: only the fields a value was read for
kv_results(reads) ==
    LET best == [k \in DOMAIN reads |-> KeepBest(k, reads[k], None)]
    IN [k \in {f \in DOMAIN reads : best[f] # None} |-> best[k][1]]

\* the loop over kv_overrides.items() replacing every entry of `fields`
kv_pass_always(fs, kv_overrides) ==
    [k \in (DOMAIN fs) \cup (DOMAIN kv_overrides) |->
        IF k \in DOMAIN kv_overrides
        THEN [FieldValue(k, Some(kv_overrides[k].value), kv_overrides[k].conf, "text")
                EXCEPT !.meta = [method |-> "kv"]]
        ELSE fs[k]]

\* the loop over kv_overrides.items(): an override with a value replaces the
\* entry of `fields` that is missing, has no value or a lower confidence
kv_pass(fs, kv_overrides) ==
    LET replaced ==
            {k \in DOMAIN kv_overrides :
                /\ kv_overrides[k].value # ""
                /\ \/ k \notin DOMAIN fs
                   \/ fs[k].value = None
                   \/ kv_overrides[k].conf > fs[k].confidence}
    IN [k \in (DOMAIN fs) \cup replaced |->
          IF k \in replaced
          THEN [FieldValue(k, Some(kv_overrides[k].value), kv_overrides[k].conf, "text")
                  EXCEPT !.meta = [method |-> "kv"]]
          ELSE fs[k]]

\* _extract_text_any's meta with the marker flag
TextMeta ==
    [engine |-> "pdfplumber", num_pages |-> "1",
     contains_axa_xl |-> IF marker THEN "True" ELSE "False"]

\* the field the run looks at, the others find nothing
StrategyFields == {"customer_name", "agent", "ref"}

DefaultIds == UNION {{DEFAULT_PATTERNS[f][k] : k \in 1..Len(DEFAULT_PATTERNS[f])} :
                        f \in DOMAIN DEFAULT_PATTERNS}
ConfigIds(f) ==
    {"cfg_1", "cfg_2", "cfg_bad"}
        \cup (IF f \in DOMAIN DEFAULT_PATTERNS THEN {DEFAULT_PATTERNS[f][1]} ELSE {})

\* what group 1 of a pattern of the field can hold; a config's pattern can
\* also capture blanks, and "cfg_bad" does not compile
Captures(f) ==
    IF f = "customer_name" THEN {"Jane Doe", "Bob "}
    ELSE IF f = "agent" THEN {"John Smith", "Al "}
    ELSE {"A1", "B2"}
Outcomes(f, id) ==
    IF id = "cfg_bad" THEN {BadPattern}
    ELSE {NoMatch} \cup {Matched(c) : c \in Captures(f)}
            \cup (IF id \in {"cfg_1", "cfg_2"} THEN {Matched(" ")} ELSE {})
AllOutcomes == {BadPattern, NoMatch, Matched(" ")}
                  \cup {Matched(c) : c \in UNION {Captures(f) : f \in StrategyFields}}

\* the values the label scanner can read for the field, in line order
KvReads(f) ==
    IF f = "customer_name"
    THEN {<<>>, <<"Jane Doe">>, <<"Bob">>, <<"Bob", "Jane Doe">>, <<"Jane Doe", "John  Smith">>}
    ELSE IF f = "agent" THEN {<<>>, <<"John Smith">>, <<"Al">>}
    ELSE {<<>>}

SeqsUpTo(S, n) == UNION {[1..k -> S] : k \in 0..n}

\* no config, a config without the field, a config listing patterns for it
ConfigsFor(f) ==
    {None, Some(EmptyDict)}
        \cup {Some([k \in {f} |-> ps]) : ps \in SeqsUpTo(ConfigIds(f), MaxConfigPatterns)}

\* the patterns the searches of a run on field f are about
IdsFor(f, cfg) ==
    (IF f \in DOMAIN DEFAULT_PATTERNS
     THEN {DEFAULT_PATTERNS[f][k] : k \in 1..Len(DEFAULT_PATTERNS[f])} ELSE {})
        \cup (IF cfg # None /\ f \in DOMAIN cfg[1]
              THEN {cfg[1][f][k] : k \in 1..Len(cfg[1][f])} ELSE {})

\* the search outcomes of a document that only mentions field f
FoundFor(f, ids) ==
    {[p \in DefaultIds \cup ids |-> IF p \in ids THEN h[p] ELSE NoMatch] :
        h \in {x \in [ids -> AllOutcomes] : \A p \in ids : x[p] \in Outcomes(f, p)}}

IdleEarlier == IdlePipeline /\ IdleMerger /\ IdleAgg /\ IdleSelect

InitText ==
    /\ IdleEarlier
    /\ IdleRest
    /\ IdleScore
    /\ step = "extract"
    /\ \E f \in StrategyFields :
          /\ config \in ConfigsFor(f)
          /\ found \in FoundFor(f, IdsFor(f, config))
          /\ kvFound \in {[k \in {f} |-> r] : r \in KvReads(f)}
    /\ ocrFound = <<>>
    /\ full_text = None
    /\ marker = FALSE
    /\ patterns = <<>>
    /\ pass1 = <<>>
    /\ textResult = <<>>
    /\ ocrResult = <<>>
    /\ bothRecord = <<>>

\* extract up to the end of pass 1: the patterns are merged and every field
\* gets its FieldValue
PatternPass ==
    /\ step = "extract"
    /\ patterns' = MergedPatterns(cfg_patterns)
    /\ pass1' = [k \in DOMAIN patterns' |-> PatternField(k, patterns'[k], found)]
    /\ step' = "pass2"
    /\ UNCHANGED <<notStrategy, config, full_text, found, kvFound, ocrFound, marker,
                   textResult, ocrResult, bothRecord>>

\* pass 2 and the return
KvPass ==
    /\ step = "pass2"
    /\ textResult' = ExtractionResult(kv_pass(pass1, kv_results(kvFound)),
                                      Some("digest1"), TextMeta)
    /\ step' = "text done"
    /\ UNCHANGED <<notStrategy, config, full_text, found, kvFound, ocrFound, marker,
                   patterns, pass1, ocrResult, bothRecord>>

NextText == PatternPass \/ KvPass

SpecText == InitText /\ [][NextText]_vars

(***************************************************************************)
(* Claims about the pattern pass                                           *)
(***************************************************************************)
\* the patterns of field k that matched, by position in patterns[k], with the
\* score of the trimmed capture of each
HitsOf(k) == {i \in 1..Len(patterns[k]) : found[patterns[k][i]].kind = "match"}
TrimmedCapture(k, i) == Strip(found[patterns[k][i]].group)
HitScores(k) == [i \in HitsOf(k) |-> _score(k, TrimmedCapture(k, i))]
\* the earliest of the matching patterns of the highest score
Winner(s) ==
    CHOOSE i \in DOMAIN s :
        \A j \in DOMAIN s : s[j] < s[i] \/ (s[j] = s[i] /\ i <= j)
Penalised(hits, c) == IF Cardinality(hits) > 1 /\ c > 200 THEN c - 50 ELSE c
\* patterns[k] without the patterns that do not compile
Compilable(k) == SelectSeq(patterns[k], LAMBDA p : found[p].kind # "error")

\* the emitted value and confidence are those of the winning pattern
WinnerEmitted(k, s) ==
    /\ pass1[k].value = Some(TrimmedCapture(k, Winner(s)))
    /\ pass1[k].confidence = Max(0, Min(1000, Penalised(DOMAIN s, s[Winner(s)])))
\* the patterns that do not compile change nothing
BadPatternsSkipped(k) ==
    Compilable(k) # patterns[k] => pass1[k] = PatternField(k, Compilable(k), found)

\* C11 as stated: for each field a pattern matched for, the pattern pass emits
\* the trimmed capture of the matching pattern of the highest score (the
\* earliest on equal scores), with that score less 0.05 when more than one
\* pattern matched and the score exceeds 0.2, clamped to [0, 1]; patterns that
\* do not compile change neither the match count nor the outcome.
C11_Original ==
    pass1 # <<>> =>
        \A k \in DOMAIN pass1 :
            LET s == HitScores(k)
            IN /\ DOMAIN s # {} => WinnerEmitted(k, s)
               /\ BadPatternsSkipped(k)

\* C11 amended: as stated for each field some matching pattern captured a
\* non-blank text for; a field whose matching patterns all captured blank text
\* is emitted like a field no pattern matched for, without a value and with
\* confidence 0.0.
C11_BestScoringMatchWins ==
    pass1 # <<>> =>
        \A k \in DOMAIN pass1 :
            LET s == HitScores(k)
                blank == DOMAIN s = {} \/ s[Winner(s)] = 0
            IN /\ ~blank => WinnerEmitted(k, s)
               /\ blank => (pass1[k].value = None /\ pass1[k].confidence = 0)
               /\ pass1[k].name = k /\ pass1[k].source = "text"
               /\ BadPatternsSkipped(k)

\* the second default pattern beats the first on the score, a config pattern
\* does not compile, and the two matches cost 0.05
C11_Witness ==
    /\ pass1 # <<>>
    /\ patterns["customer_name"] = <<"customer_name_1", "customer_name_2", "cfg_bad">>
    /\ found["customer_name_1"] = Matched("Bob ")
    /\ found["customer_name_2"] = Matched("Jane Doe")
    /\ pass1["customer_name"].value = Some("Jane Doe")
    /\ pass1["customer_name"].confidence = 750

(***************************************************************************)
(* Claims about the key-value pass                                         *)
(***************************************************************************)
\* the scanner's candidate for field k: of the values read for it, the first
\* of the highest confidence, the confidence being the score plus 0.1, at
\* most 1.0
ReadsOf(k) == IF k \in DOMAIN kvFound THEN kvFound[k] ELSE <<>>
ReadValue(k, i) == Strip(CollapseSpaces(ReadsOf(k)[i]))
ReadConfs(k) == [i \in 1..Len(ReadsOf(k)) |-> Min(1000, _score(k, ReadValue(k, i)) + 100)]
HasCandidate(k) == ReadsOf(k) # <<>>
CandidateValue(k) == ReadValue(k, Winner(ReadConfs(k)))
CandidateConf(k) == ReadConfs(k)[Winner(ReadConfs(k))]

\* the candidate meets the condition of the override
Overrides(k) ==
    /\ HasCandidate(k)
    /\ CandidateValue(k) # ""
    /\ pass1[k].value = None \/ CandidateConf(k) > pass1[k].confidence

\* C12: the scanner's candidate replaces the pattern pass's FieldValue exactly
\* when it has a non-empty value and the pattern pass had no value or a
\* strictly lower confidence; otherwise the FieldValue stays as it was.  The
\* pass never lowers a confidence and never empties a filled field.
C12_KvOverridesOnlyWhenBetter ==
    textResult # <<>> =>
        /\ DOMAIN textResult.fields = DOMAIN pass1
        /\ \A k \in DOMAIN pass1 :
              LET after == textResult.fields[k]
              IN /\ Overrides(k) =>
                        /\ after.value = Some(CandidateValue(k))
                        /\ after.confidence = CandidateConf(k)
                        /\ after.name = k /\ after.source = "text"
                        /\ after.meta = [method |-> "kv"]
                 /\ ~Overrides(k) => after = pass1[k]
                 /\ after.confidence >= pass1[k].confidence
                 /\ pass1[k].value # None => after.value # None

\* the pattern pass found "Bob" at 0.5 and the scanner reads "Bob", then
\* "Jane Doe": the second read, at 0.9, replaces the pattern's value
C12_Witness ==
    /\ textResult # <<>>
    /\ pass1["customer_name"].value = Some("Bob")
    /\ pass1["customer_name"].confidence = 500
    /\ kvFound["customer_name"] = <<"Bob", "Jane Doe">>
    /\ textResult.fields["customer_name"].value = Some("Jane Doe")
    /\ textResult.fields["customer_name"].confidence = 900

(***************************************************************************)
(* extractors/ocr_pdf.py: OCRPDFExtractor.extract on the outcomes of       *)
(* re.search on the OCR'd text                                             *)
(***************************************************************************)
\* (config or {}).get("patterns", DEFAULT_PATTERNS)
ocr_patterns == IF config = None THEN DEFAULT_PATTERNS ELSE config[1]

RECURSIVE OcrTryPatterns(_, _, _)
\* the loop `for pat in pats`: every match sets the value and lifts the
\* confidence to 0.6
OcrTryPatterns(pats, hits, st) ==
    IF pats = <<>> THEN st
    ELSE LET m == hits[Head(pats)]
         IN OcrTryPatterns(Tail(pats), hits,
                IF m.kind # "match" THEN st
                ELSE [value |-> Some(Strip(m.group)), conf |-> Max(st.conf, 600)])

\* the field loop with `conf = conf + 0.6` for `conf = max(conf, 0.6)`
OcrField_adds(field, pats, hits) ==
    LET st == OcrTryPatterns(pats, hits, [value |-> None, conf |-> 0])
        n == Cardinality({k \in 1..Len(pats) : hits[pats[k]].kind = "match"})
    IN FieldValue(field, st.value, (n * 600 * 9) \div 10, "ocr")

\* one iteration of `for field, pats in patterns.items()`
OcrField(field, pats, hits) ==
    LET st == OcrTryPatterns(pats, hits, [value |-> None, conf |-> 0])
    IN FieldValue(field, st.value, (st.conf * 9) \div 10, "ocr")

\* the patterns the OCR strategy searches for field f
OcrIdsFor(f, cfg) ==
    LET ps == IF cfg = None THEN DEFAULT_PATTERNS ELSE cfg[1]
    IN IF f \in DOMAIN ps THEN {ps[f][k] : k \in 1..Len(ps[f])} ELSE {}

\* a scanned document without a text layer: the text strategy is unavailable
InitOcr ==
    /\ IdleEarlier
    /\ IdleRest
    /\ IdleScore
    /\ step = "text done"
    /\ \E f \in StrategyFields :
          /\ config \in ConfigsFor(f)
          /\ ocrFound \in FoundFor(f, OcrIdsFor(f, config))
    /\ found = <<>>
    /\ kvFound = <<>>
    /\ full_text = None
    /\ marker = FALSE
    /\ patterns = <<>>
    /\ pass1 = <<>>
    /\ textResult = <<>>
    /\ ocrResult = <<>>
    /\ bothRecord = <<>>

\* OCRPDFExtractor.extract
OcrExtract ==
    /\ step = "text done"
    /\ ocrFound # <<>>
    /\ ocrResult' = ExtractionResult(
                        [k \in DOMAIN ocr_patterns |-> OcrField(k, ocr_patterns[k], ocrFound)],
                        Some("digest2"), [ocr |-> "True"])
    /\ step' = "ocr done"
    /\ UNCHANGED <<notStrategy, config, full_text, found, kvFound, ocrFound, marker,
                   patterns, pass1, textResult, bothRecord>>

\* run(): the results of the strategies that ran are merged and returned
ReturnRecord ==
    /\ step = "ocr done"
    /\ bothRecord' = RunRecord((IF textResult # <<>> THEN <<textResult>> ELSE <<>>)
                                  \o <<ocrResult>>)
    /\ step' = "returned"
    /\ UNCHANGED <<notStrategy, config, full_text, found, kvFound, ocrFound, marker,
                   patterns, pass1, textResult, ocrResult>>

NextOcr == OcrExtract \/ ReturnRecord

SpecOcr == InitOcr /\ [][NextOcr]_vars

(***************************************************************************)
(* Claims about the OCR strategy                                           *)
(***************************************************************************)
\* C13: every field the OCR strategy emits has confidence 0.9 * min(0.6, s),
\* s being the heuristic score of the emitted value, and 0.0 when no pattern
\* matched or the value is empty; no OCR confidence exceeds 0.54.
C13_OcrConfidenceScaledScore ==
    ocrResult # <<>> =>
        \A k \in DOMAIN ocrResult.fields :
            LET fv == ocrResult.fields[k]
            IN /\ fv.value = None => fv.confidence = 0
               /\ fv.value # None =>
                    fv.confidence = (9 * Min(600, _score(k, fv.value[1]))) \div 10
               /\ fv.confidence <= 540

(***************************************************************************)
(* TextPDFExtractor.extract on a text layer: _normalize_text, the searches *)
(* of the default patterns and the line scan of _kv_scan.  The documents   *)
(* are ASCII with "\n" line ends.                                          *)
(***************************************************************************)
\* re.sub(r"-\n", "", t): a hyphen before a line end and that line end go
DropHyphenBreaks(t) ==
    Pieces([j \in 1..Len(t) |->
              IF \/ CharAt(t, j) = "-" /\ j < Len(t) /\ CharAt(t, j + 1) = "\n"
                 \/ CharAt(t, j) = "\n" /\ j > 1 /\ CharAt(t, j - 1) = "-"
              THEN "" ELSE CharAt(t, j)], 1, Len(t))

\* re.sub(r"[chars]{min,}", " ", t) for min 1 or 2: a run of the class that
\* is long enough leaves one space where it starts
ReplaceRuns(t, chars, min) ==
    Pieces([j \in 1..Len(t) |->
              IF ~HasChar(chars, CharAt(t, j)) THEN CharAt(t, j)
              ELSE IF j > 1 /\ HasChar(chars, CharAt(t, j - 1)) THEN ""
              ELSE IF RunLength(Set(chars), t, j, FALSE, 0 - 1) >= min THEN " "
              ELSE CharAt(t, j)], 1, Len(t))

_normalize_text(text) == ReplaceRuns(ReplaceRuns(DropHyphenBreaks(text), "\t\r", 1), " ", 2)

RECURSIVE SplitLines(_)
\* str.splitlines()
SplitLines(t) ==
    IF t = "" THEN <<>>
    ELSE LET n == RunLength(NotSet("\n"), t, 1, FALSE, 0 - 1)
         IN <<SubSeq(t, 1, n)>>
                \o (IF n >= Len(t) THEN <<>> ELSE SplitLines(SubSeq(t, n + 2, Len(t))))

label_keywords ==
    [customer_name |-> <<"insured", "insured name", "name of insured", "customer name",
                         "policy holder", "name">>,
     address |-> <<"address">>,
     policy_number |-> <<"policy no", "policy number", "policy #", "policy">>,
     claim_type |-> <<"claim type", "type of claim">>,
     date_of_incident |-> <<"date of incident", "loss date", "date of loss">>,
     claim_amount |-> <<"claim amount", "amount claimed", "total claim", "amount">>,
     agent |-> <<"agent", "broker", "branch", "producer">>,
     submission_date |-> <<"submission date", "date submitted", "issue date", "submission">>,
     form_type |-> <<"axa xl", "form", "policy", "customer", "claim">>]

is_label_line(s) ==
    \/ RStrip(s) # "" /\ HasChar(":#-", CharAt(RStrip(s), Len(RStrip(s))))
    \/ Len(Split(s)) <= 6 /\ EndsWith(s, ":")

\* re.split(r"[:#\-]", raw, maxsplit=1)
SplitAtSeparator(raw) ==
    LET n == RunLength(NotSet(":#-"), raw, 1, FALSE, 0 - 1)
    IN IF n >= Len(raw) THEN <<raw>>
       ELSE <<SubSeq(raw, 1, n), SubSeq(raw, n + 2, Len(raw))>>

RECURSIVE NextNonBlank(_, _)
\* while j < len(lines) and not lines[j].strip(): j += 1
NextNonBlank(lines, j) ==
    IF j <= Len(lines) /\ Strip(lines[j]) = "" THEN NextNonBlank(lines, j + 1) ELSE j

RECURSIVE StripChars(_, _)
\* str.strip(chars)
StripChars(s, chars) ==
    IF s # "" /\ HasChar(chars, CharAt(s, 1)) THEN StripChars(SubSeq(s, 2, Len(s)), chars)
    ELSE IF s # "" /\ HasChar(chars, CharAt(s, Len(s)))
         THEN StripChars(SubSeq(s, 1, Len(s) - 1), chars)
    ELSE s

\* the value read for a field on the label line idx: the rest of the line
\* after the separator or the next line that is not a label
ValueAt(lines, idx, field) ==
    LET parts == SplitAtSeparator(lines[idx])
        j == NextNonBlank(lines, idx + 1)
    IN IF Len(parts) > 1 /\ Strip(parts[2]) # "" THEN Some(Strip(parts[2]))
       ELSE IF j <= Len(lines) /\ ~is_label_line(lines[j])
            THEN IF field = "address" /\ j + 1 <= Len(lines) /\ lines[j + 1] # ""
                       /\ ~is_label_line(lines[j + 1])
                 THEN Some(StripChars(Strip(lines[j]) \o ", " \o Strip(lines[j + 1]), ", "))
                 ELSE Some(Strip(lines[j]))
       ELSE None

RECURSIVE ReadsFrom(_, _, _)
\* the values read for a field, from line idx on
ReadsFrom(lines, idx, field) ==
    IF idx > Len(lines) THEN <<>>
    ELSE LET low == Lower(lines[idx])
             keys == label_keywords[field]
             value == ValueAt(lines, idx, field)
         IN (IF (\E k \in 1..Len(keys) : Contains(low, keys[k])) /\ value # None
             THEN value ELSE <<>>)
                \o ReadsFrom(lines, idx + 1, field)

\* the line scan of _kv_scan: per field, the values read, in line order
ScanLines(text) ==
    LET raw == SplitLines(text)
        lines == [i \in 1..Len(raw) |-> Strip(raw[i])]
    IN [field \in DOMAIN label_keywords |-> ReadsFrom(lines, 1, field)]

MarkerPattern == Cat(<<Lit("AXA"), S0, Lit("XL")>>)

\* the lines the documents are made of
DocumentLines ==
    {"Policy Number: ABC-123456", "Claim Amount: $1,234.56", "Customer Name: Jane Doe",
     "AXA XL Claim Form"}

\* every document of one to four different lines
Documents ==
    {Join(ls, "\n") :
        ls \in {x \in SeqsUpTo(DocumentLines, Cardinality(DocumentLines)) :
                    x # <<>> /\ \A i, j \in 1..Len(x) : i # j => x[i] # x[j]}}

InitDocument ==
    /\ IdleEarlier
    /\ IdleRest
    /\ IdleScore
    /\ step = "extract"
    /\ config = None
    /\ full_text \in {Some(t) : t \in Documents}
    /\ \E norm_text \in {_normalize_text(full_text[1])} :
           found = [p \in DefaultIds |-> Search(Regex[p], norm_text, TRUE)]
    /\ kvFound = ScanLines(full_text[1])
    /\ ocrFound = <<>>
    /\ marker = Occurs(MarkerPattern, full_text[1], TRUE)
    /\ patterns = <<>>
    /\ pass1 = <<>>
    /\ textResult = <<>>
    /\ ocrResult = <<>>
    /\ bothRecord = <<>>

SpecDocument == InitDocument /\ [][NextText]_vars

\* ---------------------------------------------------------------------------
\* the end-to-end scenario
\* ---------------------------------------------------------------------------

ScenarioText ==
    "Policy Number: ABC-123456\nClaim Amount: $1,234.56\nCustomer Name: Jane Doe"

ScenarioDone == step = "text done" /\ full_text = Some(ScenarioText)

Filled(result) == {k \in DOMAIN result.fields : result.fields[k].value # None}

\* C14: the text strategy run on the three scenario lines yields
\* policy_number "ABC-123456" at 0.8 or more, claim_amount "$1,234.56" at 0.8
\* or more, customer_name "Jane Doe" above 0.5, these three are the only
\* filled fields, and the aggregate confidence is the mean of their three
\* confidences.
C14_EndToEndScenario ==
    ScenarioDone =>
        LET f == textResult.fields
        IN /\ f["policy_number"].value = Some("ABC-123456")
           /\ f["policy_number"].confidence >= 800
           /\ f["claim_amount"].value = Some("$1,234.56")
           /\ f["claim_amount"].confidence >= 800
           /\ f["customer_name"].value = Some("Jane Doe")
           /\ f["customer_name"].confidence > 500
           /\ Filled(textResult) = {"policy_number", "claim_amount", "customer_name"}
           /\ aggregate_confidence(textResult)
                = Frac(f["policy_number"].confidence + f["claim_amount"].confidence
                         + f["customer_name"].confidence, 3)

(***************************************************************************)
(* Claims about unavailable strategies                                     *)
(***************************************************************************)
\* the strategies of the run that did not report themselves unavailable
Registered == SelectSeq(extractors, LAMBDA e : e.kind # "unavailable")

RECURSIVE ResultsOf(_)
\* what run() collects from strategies that all accept or raise
ResultsOf(es) ==
    IF es = <<>> THEN <<>>
    ELSE <<IF Head(es).kind = "accept" THEN Head(es).res
           ELSE ExtractionResult(EmptyDict, None,
                    [error |-> Head(es).msg, extractor |-> Head(es).cls])>>
         \o ResultsOf(Tail(es))

\* C16: a strategy whose can_process returns false is never asked to extract
\* in the run, and the returned record (fields, confidence, metadata, error
\* entries) is the record of the run without that strategy.
C16_UnavailableContributesNothing ==
    /\ \A i \in 1..Len(extractors) : extractors[i].kind = "unavailable" => i \notin asked
    /\ pc = "returned" => record = RunRecord(ResultsOf(Registered))

C16_Witness ==
    /\ pc = "returned"
    /\ Len(extractors) = 3
    /\ extractors[1].kind = "accept"
    /\ extractors[2].kind = "unavailable"
    /\ extractors[3].kind = "raise_extract"
    /\ asked = {1, 3}
    /\ record.fields # EmptyDict
    /\ record.meta.extractor = "Extractor3"

(***************************************************************************)
(* A pipeline run of the default pair on a document with a text layer:     *)
(* TextPDFExtractor.extract, then OCRPDFExtractor.extract on the rendered  *)
(* pages, then the merge.  The config lists at most one pattern.           *)
(***************************************************************************)
BothConfigs(f) ==
    {None, Some(EmptyDict)} \cup {Some([k \in {f} |-> ps]) : ps \in SeqsUpTo(ConfigIds(f), 1)}

InitBoth ==
    /\ IdleEarlier
    /\ IdleRest
    /\ IdleScore
    /\ step = "extract"
    /\ \E f \in StrategyFields :
          /\ config \in BothConfigs(f)
          /\ found \in FoundFor(f, IdsFor(f, config))
          /\ kvFound \in {[k \in {f} |-> r] : r \in KvReads(f)}
          /\ ocrFound \in FoundFor(f, OcrIdsFor(f, config))
    /\ full_text = None
    /\ marker = FALSE
    /\ patterns = <<>>
    /\ pass1 = <<>>
    /\ textResult = <<>>
    /\ ocrResult = <<>>
    /\ bothRecord = <<>>

NextBoth == PatternPass \/ KvPass \/ OcrExtract \/ ReturnRecord

SpecBoth == InitBoth /\ [][NextBoth]_vars

(***************************************************************************)
(* Claims about the emitted confidences and the merged record              *)
(***************************************************************************)
InRange(fs) == \A k \in DOMAIN fs : 0 <= fs[k].confidence /\ fs[k].confidence <= 1000

\* C15: every FieldValue of the pattern pass, of the key-value pass, of the
\* OCR strategy and of the merged record has its confidence in [0.0, 1.0].
C15_ConfidenceInRange ==
    /\ InRange(pass1)
    /\ textResult # <<>> => InRange(textResult.fields)
    /\ ocrResult # <<>> => InRange(ocrResult.fields)
    /\ bothRecord # <<>> => InRange(bothRecord.fields)

C15_Witness ==
    /\ step = "returned"
    /\ pass1["customer_name"].confidence = 750
    /\ textResult.fields["customer_name"].confidence = 900
    /\ ocrResult.fields["customer_name"].confidence = 540
    /\ bothRecord.fields["customer_name"].confidence = 900

\* C20: when the text strategy and the OCR strategy both give a value for a
\* field, the merged record keeps the text strategy's value and source.
C20_TextValueKept ==
    bothRecord # <<>> /\ textResult # <<>> =>
        \A k \in (DOMAIN textResult.fields) \cap (DOMAIN ocrResult.fields) :
            (textResult.fields[k].value # None /\ ocrResult.fields[k].value # None) =>
                /\ bothRecord.fields[k].value = textResult.fields[k].value
                /\ bothRecord.fields[k].source = "text"

(***************************************************************************)
(* TextPDFExtractor._score called on its own                               *)
(***************************************************************************)
ScoreFields ==
    {"policy_number", "date_of_incident", "submission_date", "claim_amount",
     "customer_name", "address", "agent", "claim_type", "form_type", "ref"}

ScoreValues ==
    {"", " ", "ABC-123456", "abc-123456", "AB-12", "2024-05-01", "1/2/24", "May 1 2024",
     "$123.00", "$1,234.56", "12 USD", "Jane Doe", "Bob", "J Doe", " Jane Doe ",
     "123 Main St", "Main Street", "12 Elm", "Fire", "Al"}

InitScore ==
    /\ IdleEarlier
    /\ IdleRest
    /\ IdleStrategy
    /\ scoreIn \in [field : ScoreFields, value : ScoreValues]
    /\ scoreOut = <<>>

\* the call self._score(field, value)
Score ==
    /\ scoreOut = <<>>
    /\ scoreOut' = <<_score(scoreIn.field, scoreIn.value)>>
    /\ UNCHANGED <<notScore, scoreIn>>

NextScore == Score

SpecScore == InitScore /\ [][NextScore]_vars

(***************************************************************************)
(* Claims about the heuristic score                                        *)
(***************************************************************************)
\* the values of ScoreValues that have the field's format
WellFormed(field) ==
    IF field = "policy_number" THEN {"ABC-123456", "2024-05-01", "1/2/24"}
    ELSE IF field \in {"date_of_incident", "submission_date"} THEN {"2024-05-01", "1/2/24"}
    ELSE IF field = "claim_amount" THEN {"$123.00", "$1,234.56"}
    ELSE IF field = "customer_name"
         THEN {"Jane Doe", " Jane Doe ", "12 USD", "123 Main St", "Main Street", "12 Elm"}
    ELSE IF field = "address" THEN {"123 Main St"}
    ELSE IF field \in {"agent", "claim_type", "form_type"} THEN ScoreValues \ {"", " ", "Al"}
    ELSE {}

HighLow ==
    [policy_number |-> <<900, 600>>, date_of_incident |-> <<850, 500>>,
     submission_date |-> <<850, 500>>, claim_amount |-> <<850, 500>>,
     customer_name |-> <<800, 500>>, address |-> <<750, 500>>,
     agent |-> <<600, 400>>, claim_type |-> <<600, 400>>, form_type |-> <<600, 400>>,
     ref |-> <<500, 500>>]

\* C17: _score is 0.0 for an empty (or blank) value, otherwise the field's
\* high score when the value has the field's format and its low score when
\* not (0.5 for any other field); "ABC-123456" scores at least 0.8 as a
\* policy number, "$123.00" at least 0.8 as a claim amount and "Jane Doe"
\* more than 0.5 as a customer name.
C17_ScoreTable ==
    scoreOut # <<>> =>
        LET f == scoreIn.field
            v == scoreIn.value
        IN /\ v \in {"", " "} => scoreOut[1] = 0
           /\ v \notin {"", " "} =>
                scoreOut[1] = IF v \in WellFormed(f) THEN HighLow[f][1] ELSE HighLow[f][2]
           /\ (f = "policy_number" /\ v = "ABC-123456") => scoreOut[1] >= 800
           /\ (f = "claim_amount" /\ v = "$123.00") => scoreOut[1] >= 800
           /\ (f = "customer_name" /\ v = "Jane Doe") => scoreOut[1] > 500

C17_Witness ==
    /\ scoreIn = [field |-> "customer_name", value |-> "Jane Doe"]
    /\ scoreOut = <<800>>

(***************************************************************************)
(* storage.py: Storage.save_extraction and Storage.get_document on one     *)
(* database.  result["fields"] is the list of its (name, field) items in   *)
(* dict order; a field that is {} or not a dict is <<>>: both are stored   *)
(* as (None, 0.0, "text").  Rows are never deleted, so AUTOINCREMENT gives *)
(* the number of rows plus one.  float() of a number and the REAL column   *)
(* keep the confidence as it is.                                           *)
(***************************************************************************)
MaxSaves == 3       \* save_extraction calls on one Storage

\* fv.get(key, default)
Get(fv, key, default) == IF fv # <<>> /\ key \in DOMAIN fv THEN fv[key] ELSE default

\* fields.get(name, {})
FieldOf(items, name) ==
    IF \E k \in 1..Len(items) : items[k][1] = name
    THEN items[CHOOSE k \in 1..Len(items) : items[k][1] = name][2]
    ELSE <<>>

\* the row save_extraction inserts into documents
DocumentRow(id, file_name, items) ==
    [id |-> id, filename |-> file_name,
     form_type |-> Get(FieldOf(items, "form_type"), "value", None),
     submission_date |-> Get(FieldOf(items, "submission_date"), "value", None),
     created_at |-> "CURRENT_TIMESTAMP"]

\* the row save_extraction inserts into fields for one item
FieldRow(id, doc_id, item) ==
    [id |-> id, document_id |-> doc_id, name |-> item[1],
     value |-> Get(item[2], "value", None),
     confidence |-> Get(item[2], "confidence", 0),
     source |-> Get(item[2], "source", "text")]

\* cur.lastrowid after the INSERT INTO documents
lastrowid == Len(documents) + 1

\* save_extraction(filename, result), returning lastrowid
save_extraction(file_name, items) ==
    /\ documents' = Append(documents, DocumentRow(lastrowid, file_name, items))
    /\ fieldRows' = fieldRows \o [k \in 1..Len(items) |->
                                    FieldRow(Len(fieldRows) + k, lastrowid, items[k])]
    /\ saved' = Append(saved, [id |-> lastrowid, filename |-> file_name, fields |-> items])
    /\ got' = <<>>

\* get_document without `WHERE document_id=?` on the fields table
get_document_all_fields(document_id) ==
    LET row == SelectSeq(documents, LAMBDA r : r.id = document_id)
    IN IF row = <<>> THEN None
       ELSE Some([id |-> row[1].id, filename |-> row[1].filename,
                  form_type |-> row[1].form_type,
                  submission_date |-> row[1].submission_date,
                  created_at |-> row[1].created_at,
                  fields |-> [k \in 1..Len(fieldRows) |->
                                [name |-> fieldRows[k].name, value |-> fieldRows[k].value,
                                 confidence |-> fieldRows[k].confidence,
                                 source |-> fieldRows[k].source]]])

\* get_document(document_id)
get_document(document_id) ==
    LET row == SelectSeq(documents, LAMBDA r : r.id = document_id)
        frows == SelectSeq(fieldRows, LAMBDA f : f.document_id = document_id)
    IN IF row = <<>> THEN None
       ELSE Some([id |-> row[1].id, filename |-> row[1].filename,
                  form_type |-> row[1].form_type,
                  submission_date |-> row[1].submission_date,
                  created_at |-> row[1].created_at,
                  fields |-> [k \in 1..Len(frows) |->
                                [name |-> frows[k].name, value |-> frows[k].value,
                                 confidence |-> frows[k].confidence,
                                 source |-> frows[k].source]]])

StoredFilenames == {"sample.pdf", "other.pdf"}

PolicyItem ==
    <<"policy_number", [value |-> Some("ABC-123456"), confidence |-> 900, source |-> "text"]>>
OcrPolicyItem ==
    <<"policy_number", [value |-> Some("XYZ-999999"), confidence |-> 540, source |-> "ocr"]>>
FormItem ==
    <<"form_type", [value |-> Some("AXA XL Claim Form"), confidence |-> 600, source |-> "text"]>>
BareItem == <<"address", [value |-> None]>>
EmptyItem == <<"agent", <<>>>>

\* result["fields"] of the calls
FieldItems ==
    {<<>>, <<PolicyItem>>, <<PolicyItem, FormItem>>, <<FormItem, OcrPolicyItem>>,
     <<BareItem, EmptyItem>>}

InitStorage ==
    /\ IdleEarlier
    /\ IdleStrategy
    /\ IdleScore
    /\ IdleReview
    /\ documents = <<>>
    /\ fieldRows = <<>>
    /\ saved = <<>>
    /\ got = <<>>

SaveExtraction ==
    /\ Len(saved) < MaxSaves
    /\ \E file_name \in StoredFilenames : \E items \in FieldItems : save_extraction(file_name, items)
    /\ UNCHANGED notStorage

GetDocument ==
    /\ \E document_id \in 0..(MaxSaves + 1) :
          got' = [id |-> document_id, doc |-> get_document(document_id)]
    /\ UNCHANGED <<documents, fieldRows, saved, notStorage>>

NextStorage == SaveExtraction \/ GetDocument

SpecStorage == InitStorage /\ [][NextStorage]_vars

(***************************************************************************)
(* Claims about the storage                                                *)
(***************************************************************************)
\* the (name, value, confidence, source) a call saves for its items
SavedFields(items) ==
    [k \in 1..Len(items) |->
        IF items[k][2] = <<>>
        THEN [name |-> items[k][1], value |-> None, confidence |-> 0, source |-> "text"]
        ELSE [name |-> items[k][1],
              value |-> IF "value" \in DOMAIN items[k][2] THEN items[k][2].value ELSE None,
              confidence |-> IF "confidence" \in DOMAIN items[k][2]
                             THEN items[k][2].confidence ELSE 0,
              source |-> IF "source" \in DOMAIN items[k][2]
                         THEN items[k][2].source ELSE "text"]]

\* C18: the save_extraction calls on one Storage returned pairwise distinct
\* integer ids; get_document of a returned id gives the filename of that
\* call and exactly the fields that call saved; get_document of any other id
\* gives None.
C18_StorageRoundTrip ==
    /\ \A i, j \in 1..Len(saved) :
          /\ saved[i].id \in Int
          /\ i # j => saved[i].id # saved[j].id
    /\ got # <<>> =>
          IF \E i \in 1..Len(saved) : saved[i].id = got.id
          THEN \A i \in 1..Len(saved) :
                  saved[i].id = got.id =>
                      /\ got.doc # None
                      /\ got.doc[1].filename = saved[i].filename
                      /\ got.doc[1].fields = SavedFields(saved[i].fields)
          ELSE got.doc = None

C18_Witness ==
    /\ Len(saved) = 3
    /\ saved[1].filename = "sample.pdf" /\ saved[1].fields = <<PolicyItem, FormItem>>
    /\ saved[2].filename = "sample.pdf" /\ saved[2].fields = <<FormItem, OcrPolicyItem>>
    /\ saved[3].fields = <<BareItem, EmptyItem>>
    /\ got # <<>>
    /\ got.id = 2
    /\ got.doc # None
    /\ got.doc[1].fields[2].value = Some("XYZ-999999")

(***************************************************************************)
(* app_streamlit.py: the Save button of the review page, for a document    *)
(* with two extracted fields and a new database                            *)
(***************************************************************************)
\* fv.get("value") or ""
ValueOrEmpty(fv) == IF fv.value = None THEN "" ELSE fv.value[1]

\* the field after the body of `for k in editable` for the box text
Reviewed(fv, text) ==
    LET written == [fv EXCEPT !.value = IF Strip(text) = "" THEN None ELSE Some(Strip(text))]
    IN IF text # ValueOrEmpty(written)
       THEN [written EXCEPT !.confidence = Max(@, 700)]
       ELSE written

ExtractedPolicy ==
    {FieldValue("policy_number", None, 0, "text"),
     FieldValue("policy_number", Some("ABC-123456"), 540, "ocr"),
     FieldValue("policy_number", Some("ABC-123456"), 900, "text")}
ExtractedName ==
    {FieldValue("customer_name", None, 0, "text"),
     FieldValue("customer_name", Some("Jane Doe"), 750, "text")}

\* what the reviewer can leave in a box: the extracted value or a new text
PolicyTexts == {"", " ", "ABC-123456", "ABC-123457", " ABC-123456"}
NameTexts == {"", "Jane Doe", "Jane Roe", "Jane Doe "}

InitReview ==
    /\ IdleEarlier
    /\ IdleStrategy
    /\ IdleScore
    /\ IdleStorage
    /\ \E p \in ExtractedPolicy : \E n \in ExtractedName :
          reviewFields = <<<<"policy_number", p>>, <<"customer_name", n>>>>
    /\ editable \in {<<a, b>> : a \in PolicyTexts, b \in NameTexts}
    /\ shown = reviewFields
    /\ save_to_db \in BOOLEAN
    /\ notice = <<>>

\* `if st.button("Save ...")`: the edits are written back, then the record
\* is stored when saving is switched on
Save ==
    /\ notice = <<>>
    /\ LET edited == [k \in 1..Len(reviewFields) |->
                        <<reviewFields[k][1], Reviewed(reviewFields[k][2], editable[k])>>]
       IN /\ reviewFields' = edited
          /\ IF save_to_db
             THEN /\ save_extraction("sample.pdf", edited)
                  /\ notice' = Some("Saved with document_id=" \o ToString(lastrowid))
             ELSE /\ notice' = Some("Saving disabled. Review complete.")
                  /\ UNCHANGED storageVars
    /\ UNCHANGED <<notReview, editable, shown, save_to_db>>

NextReview == Save

SpecReview == InitReview /\ [][NextReview]_vars

(***************************************************************************)
(* Claims about the review page                                            *)
(***************************************************************************)
\* C19: after Save, a field whose box text differs from the extracted value
\* has confidence max(previous confidence, 0.7), and a field whose text was
\* left as extracted keeps its previous confidence.
C19_EditedFieldsAreFloored ==
    notice # <<>> =>
        \A k \in 1..Len(shown) :
            LET before == shown[k][2]
                after == reviewFields[k][2]
            IN after.confidence =
                  IF editable[k] # ValueOrEmpty(before)
                  THEN Max(before.confidence, 700) ELSE before.confidence

====
